---- MODULE Spec2Model ----
(***************************************************************************)
(* Red-black tree (RBTree) of red-black-tree-rs: the sentinel-linked node  *)
(* graph, the BST skeleton (position, rotations, predecessor/successor),   *)
(* insertion and removal with their fixups, and the iteration walk.        *)
(*                                                                         *)
(* A node pointer (NodePtr) is a natural number; the heap maps every       *)
(* allocated pointer to the node record stored there.  Box::new takes a    *)
(* pointer that is not allocated, Box::from_raw + drop removes the pointer *)
(* from the heap.  A tree-machine value `t`                                *)
(* is the record [heap, len, panic]: panic = TRUE after a panic!/assert!   *)
(* has fired, and every later step of the interrupted call is skipped.     *)
(***************************************************************************)
EXTENDS Integers, Sequences, FiniteSets, Bags, TLC

\* ---------------------------------------------------------------- bounds
\* keys of the structural runs (every insert stores the same value)
MaxKey == 10
\* keys and values of the key/value runs (differential test)
MaxKeyKV == 4
MaxVal == 2
\* keys and number of size-changing calls of the size-accounting runs
MaxKeyCount == 4
MaxCalls == 6
\* node fields overwritten before a validation
MaxWrites == 1
\* keys of the runs of the plain variant (SimpleBST)
MaxKeyPlain == 4
\* keys of the skeleton runs (trees built without rebalancing)
MaxKeyTree == 5
\* keys, and calls of insert, of the ownership runs
MaxKeyLife == 3
MaxHanded == 4

Keys      == 1..MaxKey
KeysKV    == 1..MaxKeyKV
KeysCount == 1..MaxKeyCount
Values    == 1..MaxVal
KeysTree  == 1..MaxKeyTree
KeysPlain == 1..MaxKeyPlain
KeysLife  == 1..MaxKeyLife

\* ------------------------------------------------------------- node.rs
Red   == "Red"
Black == "Black"
Left  == "Left"
Right == "Right"

\* MaybeUninit::uninit(): the payload of a sentinel
Uninit == 0

\* self.nil and self.header, the two sentinels allocated by RBTree::new
nil    == 0
header == 1

None    == <<>>
Some(v) == <<v>>

\* fault markers returned by the lookups that can panic
PanicPos  == "Panic"
PanicNode == -1

RBNode(k, v, c, l, r, p) ==
    [key |-> k, value |-> v, color |-> c, left |-> l, right |-> r, parent |-> p]

is_nil(node) == node = nil

is_header(node) == node = header

Panic(t) == [t EXCEPT !.panic = TRUE]

\* Observation of a call.  A tree machine that also carries the fields
\* `rotations` and `calls` counts the rotations it performs and logs every
\* entry into remove_fixup / remove_fixup_black_sibling with the arguments
\* and the heap at that moment; a tree machine without them is not observed.
traced(t) ==
    [heap |-> t.heap, len |-> t.len, panic |-> t.panic, rotations |-> 0, calls |-> <<>>]

rotated(t) ==
    IF "rotations" \in DOMAIN t THEN [t EXCEPT !.rotations = @ + 1] ELSE t

called(t, fn, double_black, parent) ==
    IF "calls" \in DOMAIN t
    THEN [t EXCEPT !.calls = Append(@, [fn |-> fn, double_black |-> double_black,
                                        parent |-> parent, heap |-> t.heap])]
    ELSE t

\* RBTree::new: nil links to itself, header links to nil, both Black
new ==
    [heap  |-> (nil :> RBNode(Uninit, Uninit, Black, nil, nil, nil))
            @@ (header :> RBNode(Uninit, Uninit, Black, nil, nil, nil)),
     len   |-> 0,
     panic |-> FALSE]

\* new_node coloring the node Black, as the plain variant does
new_node_black(t, key, value) ==
    LET ptr == CHOOSE p \in 0..Cardinality(DOMAIN t.heap) : p \notin DOMAIN t.heap
    IN  [t   |-> [t EXCEPT !.heap = t.heap @@ (ptr :> RBNode(key, value, Black, nil, nil, nil))],
         ptr |-> ptr]

\* Box::new(RBNode { color: Red, left/right/parent: nil }) at a fresh address
new_node(t, key, value) ==
    LET ptr == CHOOSE p \in 0..Cardinality(DOMAIN t.heap) : p \notin DOMAIN t.heap
    IN  [t   |-> [t EXCEPT !.heap = t.heap @@ (ptr :> RBNode(key, value, Red, nil, nil, nil))],
         ptr |-> ptr]

\* Box::from_raw(node) followed by the drop of the box
free_node(t, node) ==
    [t EXCEPT !.heap = [p \in (DOMAIN t.heap) \ {node} |-> t.heap[p]]]

color_red(t, node) == [t EXCEPT !.heap[node].color = Red]

color_black(t, node) == [t EXCEPT !.heap[node].color = Black]

set_left(t, node, x) == [t EXCEPT !.heap[node].left = x]

set_right(t, node, x) == [t EXCEPT !.heap[node].right = x]

set_parent(t, node, x) == [t EXCEPT !.heap[node].parent = x]

\* ------------------------------------------------------- binary_tree.rs
\* get_parent_node_position with a plain `else` for the right link: no panic
get_parent_node_position_defaults_right(t, parent, child) ==
    IF is_header(parent) THEN Right
    ELSE IF t.heap[parent].left = child THEN Left
    ELSE Right

get_parent_node_position(t, parent, child) ==
    IF is_header(parent) THEN Right
    ELSE IF t.heap[parent].left = child THEN Left
    ELSE IF t.heap[parent].right = child THEN Right
    ELSE PanicPos

get_node_position(t, child) ==
    IF is_nil(child) THEN PanicPos
    ELSE get_parent_node_position(t, t.heap[child].parent, child)

RECURSIVE rightmost(_, _)
rightmost(t, cur) ==
    LET right == t.heap[cur].right
    IN  IF is_nil(right) THEN cur ELSE rightmost(t, right)

RECURSIVE leftmost(_, _)
leftmost(t, cur) ==
    LET left == t.heap[cur].left
    IN  IF is_nil(left) THEN cur ELSE leftmost(t, left)

RECURSIVE climb_while_left(_, _, _)
climb_while_left(t, x, p) ==
    IF ~is_header(p) /\ x = t.heap[p].left
    THEN climb_while_left(t, p, t.heap[p].parent)
    ELSE p

RECURSIVE climb_while_right(_, _, _)
climb_while_right(t, x, p) ==
    IF ~is_header(p) /\ x = t.heap[p].right
    THEN climb_while_right(t, p, t.heap[p].parent)
    ELSE p

\* inorder_predecessor without the descent to the rightmost node
inorder_predecessor_left_child(t, node) ==
    LET cur == t.heap[node].left
    IN  IF is_nil(cur)
        THEN LET p == climb_while_left(t, node, t.heap[node].parent)
             IN  IF is_header(p) THEN nil ELSE p
        ELSE cur

inorder_predecessor(t, node) ==
    LET cur == t.heap[node].left
    IN  IF is_nil(cur)
        THEN LET p == climb_while_left(t, node, t.heap[node].parent)
             IN  IF is_header(p) THEN nil ELSE p
        ELSE rightmost(t, cur)

\* inorder_successor without the descent to the leftmost node
inorder_successor_right_child(t, node) ==
    LET cur == t.heap[node].right
    IN  IF is_nil(cur)
        THEN LET p == climb_while_right(t, node, t.heap[node].parent)
             IN  IF is_header(p) THEN nil ELSE p
        ELSE cur

\* inorder_successor without the while loop: with no right child it answers
\* the parent
inorder_successor_parent_only(t, node) ==
    LET cur == t.heap[node].right
    IN  IF is_nil(cur)
        THEN LET p == t.heap[node].parent
             IN  IF is_header(p) THEN nil ELSE p
        ELSE leftmost(t, cur)

inorder_successor(t, node) ==
    LET cur == t.heap[node].right
    IN  IF is_nil(cur)
        THEN LET p == climb_while_right(t, node, t.heap[node].parent)
             IN  IF is_header(p) THEN nil ELSE p
        ELSE leftmost(t, cur)

\* the final `match position` of a rotation without `up.parent = parent`
link_rotated_without_parent(t, parent, position, up) ==
    IF position = Left
    THEN set_left(t, parent, up)
    ELSE set_right(t, parent, up)

\* the final `match position` of both rotations: hook `up` under `parent`
link_rotated(t, parent, position, up) ==
    IF position = Left
    THEN set_parent(set_left(t, parent, up), up, parent)
    ELSE set_parent(set_right(t, parent, up), up, parent)

\* rotate_left without `right_left.parent = node`
rotate_left_inner_keeps_parent(t, node) ==
    IF t.panic THEN t
    ELSE
    LET parent == t.heap[node].parent
        right  == t.heap[node].right
    IN  IF is_nil(right) THEN Panic(t)
        ELSE
        LET position == get_parent_node_position(t, parent, node)
        IN  IF position = PanicPos THEN Panic(t)
            ELSE
            LET right_left == t.heap[right].left
                t1 == set_left(t, right, node)
                t2 == set_parent(t1, node, right)
                t3 == set_right(t2, node, right_left)
            IN  rotated(link_rotated(t3, parent, position, right))

rotate_left(t, node) ==
    IF t.panic THEN t
    ELSE
    LET parent == t.heap[node].parent
        right  == t.heap[node].right
    IN  IF is_nil(right) THEN Panic(t)
        ELSE
        LET position == get_parent_node_position(t, parent, node)
        IN  IF position = PanicPos THEN Panic(t)
            ELSE
            LET right_left == t.heap[right].left
                t1 == set_left(t, right, node)
                t2 == set_parent(t1, node, right)
                t3 == set_right(t2, node, right_left)
                t4 == IF ~is_nil(right_left) THEN set_parent(t3, right_left, node) ELSE t3
            IN  rotated(link_rotated(t4, parent, position, right))

rotate_right(t, node) ==
    IF t.panic THEN t
    ELSE
    LET parent == t.heap[node].parent
        left   == t.heap[node].left
    IN  IF is_nil(left) THEN Panic(t)
        ELSE
        LET position == get_parent_node_position(t, parent, node)
        IN  IF position = PanicPos THEN Panic(t)
            ELSE
            LET left_right == t.heap[left].right
                t1 == set_right(t, left, node)
                t2 == set_parent(t1, node, left)
                t3 == set_left(t2, node, left_right)
                t4 == IF ~is_nil(left_right) THEN set_parent(t3, left_right, node) ELSE t3
            IN  rotated(link_rotated(t4, parent, position, left))

grandparent(t, node) == t.heap[t.heap[node].parent].parent

sibling_of_nil(t, parent, node) ==
    IF is_header(parent) THEN nil
    ELSE LET position == get_parent_node_position(t, parent, node)
         IN  IF position = PanicPos THEN PanicNode
             ELSE IF position = Left THEN t.heap[parent].right
             ELSE t.heap[parent].left

sibling(t, node) == sibling_of_nil(t, t.heap[node].parent, node)

uncle(t, node) ==
    LET parent == t.heap[node].parent
    IN  IF is_header(node) \/ is_header(parent) THEN nil
        ELSE LET gp == t.heap[parent].parent
                 position == get_parent_node_position(t, gp, parent)
             IN  IF position = PanicPos THEN PanicNode
                 ELSE IF position = Left THEN t.heap[gp].right
                 ELSE t.heap[gp].left

\* ---------------------------------------------- binary_search_tree/mod.rs
\* the descent loop taking the right link for a smaller key
RECURSIVE search_from_wrong_side(_, _, _)
search_from_wrong_side(t, cur, key) ==
    IF is_nil(cur) THEN nil
    ELSE LET k == t.heap[cur].key
         IN  IF key = k THEN cur
             ELSE IF key < k THEN search_from_wrong_side(t, t.heap[cur].right, key)
             ELSE search_from_wrong_side(t, t.heap[cur].left, key)

\* the descent loop shared by search and search_mut
RECURSIVE search_from(_, _, _)
search_from(t, cur, key) ==
    IF is_nil(cur) THEN nil
    ELSE LET k == t.heap[cur].key
         IN  IF key = k THEN cur
             ELSE IF key < k THEN search_from(t, t.heap[cur].left, key)
             ELSE search_from(t, t.heap[cur].right, key)

search(t, key) ==
    LET cur == search_from(t, t.heap[header].right, key)
    IN  IF is_nil(cur) THEN None ELSE Some(t.heap[cur].value)

\* the while loop of bs_insert: stops on an equal key or on nil
RECURSIVE bs_insert_descend(_, _, _, _, _)
bs_insert_descend(t, parent, cur, node_position, key) ==
    IF is_nil(cur)
    THEN [found |-> FALSE, cur |-> cur, parent |-> parent, node_position |-> node_position]
    ELSE LET k == t.heap[cur].key
         IN  IF key = k
             THEN [found |-> TRUE, cur |-> cur, parent |-> parent,
                   node_position |-> node_position]
             ELSE IF key < k
             THEN bs_insert_descend(t, cur, t.heap[cur].left, Left, key)
             ELSE bs_insert_descend(t, cur, t.heap[cur].right, Right, key)

\* bs_insert handing back the value it has just stored instead of the old one
bs_insert_returns_new(t, key, value) ==
    LET d == bs_insert_descend(t, header, t.heap[header].right, Right, key)
    IN  IF d.found
        THEN [t      |-> [t EXCEPT !.heap[d.cur].value = value],
              result |-> [old |-> TRUE, old_value |-> value, node |-> nil]]
        ELSE LET n  == new_node(t, key, value)
                 t1 == set_parent(n.t, n.ptr, d.parent)
                 t2 == IF d.node_position = Left
                       THEN set_left(t1, d.parent, n.ptr)
                       ELSE set_right(t1, d.parent, n.ptr)
             IN  [t      |-> t2,
                  result |-> [old |-> FALSE, old_value |-> Uninit, node |-> n.ptr]]

\* bs_insert treating the node of a key that was already there as a fresh
\* node: its color is set to Red
bs_insert_old_turns_red(t, key, value) ==
    LET d == bs_insert_descend(t, header, t.heap[header].right, Right, key)
    IN  IF d.found
        THEN [t      |-> [t EXCEPT !.heap[d.cur].value = value, !.heap[d.cur].color = Red],
              result |-> [old |-> TRUE, old_value |-> t.heap[d.cur].value, node |-> nil]]
        ELSE LET n  == new_node(t, key, value)
                 t1 == set_parent(n.t, n.ptr, d.parent)
                 t2 == IF d.node_position = Left
                       THEN set_left(t1, d.parent, n.ptr)
                       ELSE set_right(t1, d.parent, n.ptr)
             IN  [t      |-> t2,
                  result |-> [old |-> FALSE, old_value |-> Uninit, node |-> n.ptr]]

\* InsertResult::Old(old_value) | InsertResult::New(new_node)
bs_insert(t, key, value) ==
    LET d == bs_insert_descend(t, header, t.heap[header].right, Right, key)
    IN  IF d.found
        THEN [t      |-> [t EXCEPT !.heap[d.cur].value = value],
              result |-> [old |-> TRUE, old_value |-> t.heap[d.cur].value, node |-> nil]]
        ELSE LET n  == new_node(t, key, value)
                 t1 == set_parent(n.t, n.ptr, d.parent)
                 t2 == IF d.node_position = Left
                       THEN set_left(t1, d.parent, n.ptr)
                       ELSE set_right(t1, d.parent, n.ptr)
             IN  [t      |-> t2,
                  result |-> [old |-> FALSE, old_value |-> Uninit, node |-> n.ptr]]

\* remove_node_with_no_child re-parenting the replacing nil as if it were a
\* child
remove_node_with_no_child_reparents_nil(t, node) ==
    IF t.panic \/ is_nil(node) THEN t
    ELSE LET parent   == t.heap[node].parent
             position == get_parent_node_position(t, parent, node)
         IN  IF position = PanicPos THEN Panic(t)
             ELSE IF position = Left THEN set_parent(set_left(t, parent, nil), nil, parent)
             ELSE set_parent(set_right(t, parent, nil), nil, parent)

remove_node_with_no_child(t, node) ==
    IF t.panic \/ is_nil(node) THEN t
    ELSE LET parent   == t.heap[node].parent
             position == get_parent_node_position(t, parent, node)
         IN  IF position = PanicPos THEN Panic(t)
             ELSE IF position = Left THEN set_left(t, parent, nil)
             ELSE set_right(t, parent, nil)

\* remove_node_with_one_child without `child.parent = parent`
remove_node_with_one_child_no_reparent(t, node) ==
    IF t.panic \/ is_nil(node) THEN t
    ELSE LET parent == t.heap[node].parent
             left   == t.heap[node].left
             right  == t.heap[node].right
         IN  IF is_nil(left) /\ is_nil(right) THEN Panic(t)
             ELSE
             LET child    == IF ~is_nil(left) THEN left ELSE right
                 position == get_parent_node_position(t, parent, node)
             IN  IF position = PanicPos THEN Panic(t)
                 ELSE IF position = Left
                 THEN set_left(t, parent, child)
                 ELSE set_right(t, parent, child)

remove_node_with_one_child(t, node) ==
    IF t.panic \/ is_nil(node) THEN t
    ELSE LET parent == t.heap[node].parent
             left   == t.heap[node].left
             right  == t.heap[node].right
         IN  IF is_nil(left) /\ is_nil(right) THEN Panic(t)
             ELSE
             LET child    == IF ~is_nil(left) THEN left ELSE right
                 position == get_parent_node_position(t, parent, node)
             IN  IF position = PanicPos THEN Panic(t)
                 ELSE IF position = Left
                 THEN set_parent(set_left(t, parent, child), child, parent)
                 ELSE set_parent(set_right(t, parent, child), child, parent)

remove_node_with_no_or_one_child(t, node) ==
    IF t.panic \/ is_nil(node) THEN t
    ELSE LET left  == t.heap[node].left
             right == t.heap[node].right
         IN  IF is_nil(left) /\ is_nil(right) THEN remove_node_with_no_child(t, node)
             ELSE IF ~is_nil(left) /\ ~is_nil(right) THEN Panic(t)
             ELSE remove_node_with_one_child(t, node)

\* swap_payload without the swap of the values
swap_payload_keys_only(t, a, b) ==
    [t EXCEPT !.heap[a].key = t.heap[b].key,
              !.heap[b].key = t.heap[a].key]

\* std::mem::swap of the key and of the value of two nodes
swap_payload(t, a, b) ==
    [t EXCEPT !.heap[a].key   = t.heap[b].key,
              !.heap[b].key   = t.heap[a].key,
              !.heap[a].value = t.heap[b].value,
              !.heap[b].value = t.heap[a].value]

\* the while loop of bs_remove; bs_remove returns the node unlinked from the
\* tree (nil when the key is absent)
RECURSIVE bs_remove_descend(_, _, _)
bs_remove_descend(t, cur, key) ==
    IF is_nil(cur) THEN cur
    ELSE LET k == t.heap[cur].key
         IN  IF k = key THEN cur
             ELSE IF key < k THEN bs_remove_descend(t, t.heap[cur].left, key)
             ELSE bs_remove_descend(t, t.heap[cur].right, key)

\* bs_remove unlinking the predecessor without the payload swap
bs_remove_no_swap(t, key) ==
    LET cur == bs_remove_descend(t, t.heap[header].right, key)
    IN  IF is_nil(cur) THEN [t |-> t, node |-> cur]
        ELSE IF ~is_nil(t.heap[cur].left) /\ ~is_nil(t.heap[cur].right)
        THEN LET pred == inorder_predecessor(t, cur)
             IN  [t |-> remove_node_with_no_or_one_child(t, pred), node |-> pred]
        ELSE [t |-> remove_node_with_no_or_one_child(t, cur), node |-> cur]

\* bs_remove exchanging payloads with the in-order successor instead
bs_remove_with_successor(t, key) ==
    LET cur == bs_remove_descend(t, t.heap[header].right, key)
    IN  IF is_nil(cur) THEN [t |-> t, node |-> cur]
        ELSE IF ~is_nil(t.heap[cur].left) /\ ~is_nil(t.heap[cur].right)
        THEN LET succ == inorder_successor(t, cur)
                 t1   == swap_payload(t, succ, cur)
             IN  [t |-> remove_node_with_no_or_one_child(t1, succ), node |-> succ]
        ELSE [t |-> remove_node_with_no_or_one_child(t, cur), node |-> cur]

bs_remove(t, key) ==
    LET cur == bs_remove_descend(t, t.heap[header].right, key)
    IN  IF is_nil(cur) THEN [t |-> t, node |-> cur]
        ELSE IF ~is_nil(t.heap[cur].left) /\ ~is_nil(t.heap[cur].right)
        THEN LET pred == inorder_predecessor(t, cur)
                 t1   == swap_payload(t, pred, cur)
             IN  [t |-> remove_node_with_no_or_one_child(t1, pred), node |-> pred]
        ELSE [t |-> remove_node_with_no_or_one_child(t, cur), node |-> cur]

\* ------------------------------------------------------------- lib.rs
\* insert_fixup_straight_line without `color_black(red_p)`
insert_fixup_straight_line_parent_red(t, red_child, red_p, black_g, position) ==
    IF t.panic THEN t
    ELSE IF t.heap[red_child].color # Red THEN Panic(t)
    ELSE IF t.heap[red_p].color # Red THEN Panic(t)
    ELSE IF t.heap[black_g].color # Black THEN Panic(t)
    ELSE LET t1 == IF position = Left THEN rotate_right(t, black_g)
                   ELSE rotate_left(t, black_g)
         IN  IF t1.panic THEN t1
             ELSE color_red(t1, black_g)

\* insert_fixup_straight_line without `color_red(black_g)`
insert_fixup_straight_line_grandparent_black(t, red_child, red_p, black_g, position) ==
    IF t.panic THEN t
    ELSE IF t.heap[red_child].color # Red THEN Panic(t)
    ELSE IF t.heap[red_p].color # Red THEN Panic(t)
    ELSE IF t.heap[black_g].color # Black THEN Panic(t)
    ELSE LET t1 == IF position = Left THEN rotate_right(t, black_g)
                   ELSE rotate_left(t, black_g)
         IN  IF t1.panic THEN t1
             ELSE color_black(t1, red_p)

insert_fixup_straight_line(t, red_child, red_p, black_g, position) ==
    IF t.panic THEN t
    ELSE IF t.heap[red_child].color # Red THEN Panic(t)
    ELSE IF t.heap[red_p].color # Red THEN Panic(t)
    ELSE IF t.heap[black_g].color # Black THEN Panic(t)
    ELSE LET t1 == IF position = Left THEN rotate_right(t, black_g)
                   ELSE rotate_left(t, black_g)
         IN  IF t1.panic THEN t1
             ELSE color_black(color_red(t1, black_g), red_p)

RECURSIVE insert_fixup(_, _)
\* insert_fixup treating a broken line as a straight one: no rotation about
\* the parent
insert_fixup_never_straightens(t, red_node) ==
    IF t.panic THEN t
    ELSE
    LET parent == t.heap[red_node].parent
    IN  IF is_header(parent) THEN color_black(t, red_node)
        ELSE IF t.heap[parent].color = Black THEN t
        ELSE
        LET gp == grandparent(t, red_node)
        IN  IF is_nil(gp) THEN Panic(t)
            ELSE
            LET un == uncle(t, red_node)
            IN  IF un = PanicNode THEN Panic(t)
                ELSE IF t.heap[un].color = Black
                THEN LET g_position == get_node_position(t, parent)
                         n_position == get_node_position(t, red_node)
                     IN  IF g_position = PanicPos \/ n_position = PanicPos THEN Panic(t)
                         ELSE IF g_position = Left /\ n_position = Left
                         THEN insert_fixup_straight_line(t, red_node, parent, gp, Left)
                         ELSE IF g_position = Right /\ n_position = Right
                         THEN insert_fixup_straight_line(t, red_node, parent, gp, Right)
                         ELSE IF g_position = Left /\ n_position = Right
                         THEN insert_fixup_straight_line(t, red_node, parent, gp, Left)
                         ELSE insert_fixup_straight_line(t, red_node, parent, gp, Right)
                ELSE IF is_nil(un) THEN Panic(t)
                ELSE insert_fixup(color_red(color_black(color_black(t, parent), un), gp), gp)

insert_fixup(t, red_node) ==
    IF t.panic THEN t
    ELSE
    LET parent == t.heap[red_node].parent
    IN  IF is_header(parent) THEN color_black(t, red_node)
        ELSE IF t.heap[parent].color = Black THEN t
        ELSE
        LET gp == grandparent(t, red_node)
        IN  IF is_nil(gp) THEN Panic(t)
            ELSE
            LET un == uncle(t, red_node)
            IN  IF un = PanicNode THEN Panic(t)
                ELSE IF t.heap[un].color = Black
                THEN LET g_position == get_node_position(t, parent)
                         n_position == get_node_position(t, red_node)
                     IN  IF g_position = PanicPos \/ n_position = PanicPos THEN Panic(t)
                         ELSE IF g_position = Left /\ n_position = Left
                         THEN insert_fixup_straight_line(t, red_node, parent, gp, Left)
                         ELSE IF g_position = Right /\ n_position = Right
                         THEN insert_fixup_straight_line(t, red_node, parent, gp, Right)
                         ELSE IF g_position = Left /\ n_position = Right
                         THEN insert_fixup_straight_line(rotate_left(t, parent),
                                                         parent, red_node, gp, Left)
                         ELSE insert_fixup_straight_line(rotate_right(t, parent),
                                                         parent, red_node, gp, Right)
                ELSE IF is_nil(un) THEN Panic(t)
                ELSE insert_fixup(color_red(color_black(color_black(t, parent), un), gp), gp)

\* insert counting the entry also when the key was already present
insert_counts_upsert(t, key, value) ==
    LET b == bs_insert(t, key, value)
    IN  IF b.result.old
        THEN [t |-> [b.t EXCEPT !.len = b.t.len + 1], ret |-> Some(b.result.old_value)]
        ELSE LET t1 == insert_fixup(b.t, b.result.node)
             IN  [t   |-> IF t1.panic THEN t1 ELSE [t1 EXCEPT !.len = t1.len + 1],
                  ret |-> None]

insert(t, key, value) ==
    LET b == bs_insert(t, key, value)
    IN  IF b.result.old
        THEN [t |-> b.t, ret |-> Some(b.result.old_value)]
        ELSE LET t1 == insert_fixup(b.t, b.result.node)
             IN  [t   |-> IF t1.panic THEN t1 ELSE [t1 EXCEPT !.len = t1.len + 1],
                  ret |-> None]

\* remove_fixup_far_red_nephew without `color_black(far_nephew)`
remove_fixup_far_red_nephew_stays_red(t, parent, sibling_, double_black, far_nephew) ==
    IF t.panic THEN t
    ELSE
    LET position == get_parent_node_position(t, parent, sibling_)
    IN  IF position = PanicPos THEN Panic(t)
        ELSE
        LET t1 == IF position = Left THEN rotate_right(t, parent) ELSE rotate_left(t, parent)
        IN  IF t1.panic THEN t1
            ELSE
            LET t2 == [t1 EXCEPT !.heap[sibling_].color = t1.heap[parent].color,
                                 !.heap[parent].color   = t1.heap[sibling_].color]
            IN  color_black(t2, double_black)

remove_fixup_far_red_nephew(t, parent, sibling_, double_black, far_nephew) ==
    IF t.panic THEN t
    ELSE
    LET position == get_parent_node_position(t, parent, sibling_)
    IN  IF position = PanicPos THEN Panic(t)
        ELSE
        LET t1 == IF position = Left THEN rotate_right(t, parent) ELSE rotate_left(t, parent)
        IN  IF t1.panic THEN t1
            ELSE
            LET t2 == [t1 EXCEPT !.heap[sibling_].color = t1.heap[parent].color,
                                 !.heap[parent].color   = t1.heap[sibling_].color]
            IN  color_black(color_black(t2, double_black), far_nephew)

RECURSIVE remove_fixup(_, _, _)
RECURSIVE remove_fixup_black_sibling(_, _, _)

\* remove_fixup_black_sibling pushing the deficit two levels up: the
\* recursive call is made on the grandparent
remove_fixup_black_sibling_skips_parent(t0, double_black, parent) ==
    IF t0.panic THEN t0
    ELSE
    LET t        == called(t0, "remove_fixup_black_sibling", double_black, parent)
        sibling_ == sibling_of_nil(t, parent, double_black)
        position == get_parent_node_position(t, parent, double_black)
    IN  IF sibling_ = PanicNode \/ position = PanicPos THEN Panic(t)
        ELSE
        LET left_nephew  == t.heap[sibling_].left
            right_nephew == t.heap[sibling_].right
            far_nephew   == IF position = Left THEN right_nephew ELSE left_nephew
            near_nephew  == IF position = Left THEN left_nephew ELSE right_nephew
        IN  IF t.heap[far_nephew].color = Black /\ t.heap[near_nephew].color = Black
            THEN remove_fixup(color_black(color_red(t, sibling_), double_black),
                              t.heap[parent].parent,
                              t.heap[t.heap[parent].parent].parent)
            ELSE IF t.heap[far_nephew].color = Red
            THEN remove_fixup_far_red_nephew(t, parent, sibling_, double_black, far_nephew)
            ELSE
            LET near_position == get_parent_node_position(t, sibling_, near_nephew)
            IN  IF near_position = PanicPos THEN Panic(t)
                ELSE
                LET t1 == IF near_position = Left THEN rotate_right(t, sibling_)
                          ELSE rotate_left(t, sibling_)
                IN  IF t1.panic THEN t1
                    ELSE remove_fixup_far_red_nephew(
                             color_black(color_red(t1, sibling_), near_nephew),
                             parent, near_nephew, double_black, sibling_)

remove_fixup(t0, double_black, parent) ==
    IF t0.panic THEN t0
    ELSE
    LET t == called(t0, "remove_fixup", double_black, parent)
    IN
    IF is_header(parent) \/ t.heap[double_black].color = Red
    THEN color_black(t, double_black)
    ELSE
    LET sibing == sibling_of_nil(t, parent, double_black)
    IN  IF sibing = PanicNode \/ is_nil(sibing) THEN Panic(t)
        ELSE IF t.heap[sibing].color = Black
        THEN remove_fixup_black_sibling(t, double_black, parent)
        ELSE
        LET position == get_parent_node_position(t, parent, sibing)
        IN  IF position = PanicPos THEN Panic(t)
            ELSE
            LET t1 == IF position = Left THEN rotate_right(t, parent)
                      ELSE rotate_left(t, parent)
                t2 == IF t1.panic THEN t1 ELSE color_red(color_black(t1, sibing), parent)
            IN  IF t2.panic THEN t2
                ELSE
                LET new_sibing == sibling_of_nil(t2, parent, double_black)
                IN  IF new_sibing = PanicNode THEN Panic(t2)
                    ELSE IF t2.heap[new_sibing].color # Black THEN Panic(t2)
                    ELSE remove_fixup_black_sibling(t2, double_black, parent)

remove_fixup_black_sibling(t0, double_black, parent) ==
    IF t0.panic THEN t0
    ELSE
    LET t        == called(t0, "remove_fixup_black_sibling", double_black, parent)
        sibling_ == sibling_of_nil(t, parent, double_black)
        position == get_parent_node_position(t, parent, double_black)
    IN  IF sibling_ = PanicNode \/ position = PanicPos THEN Panic(t)
        ELSE
        LET left_nephew  == t.heap[sibling_].left
            right_nephew == t.heap[sibling_].right
            far_nephew   == IF position = Left THEN right_nephew ELSE left_nephew
            near_nephew  == IF position = Left THEN left_nephew ELSE right_nephew
        IN  IF t.heap[far_nephew].color = Black /\ t.heap[near_nephew].color = Black
            THEN remove_fixup(color_black(color_red(t, sibling_), double_black),
                              parent, t.heap[parent].parent)
            ELSE IF t.heap[far_nephew].color = Red
            THEN remove_fixup_far_red_nephew(t, parent, sibling_, double_black, far_nephew)
            ELSE
            LET near_position == get_parent_node_position(t, sibling_, near_nephew)
            IN  IF near_position = PanicPos THEN Panic(t)
                ELSE
                LET t1 == IF near_position = Left THEN rotate_right(t, sibling_)
                          ELSE rotate_left(t, sibling_)
                IN  IF t1.panic THEN t1
                    ELSE remove_fixup_far_red_nephew(
                             color_black(color_red(t1, sibling_), near_nephew),
                             parent, near_nephew, double_black, sibling_)

\* the tail of remove without `self.len -= 1`
take_removed_keeps_len(t, removed) ==
    IF t.panic THEN [t |-> t, ret |-> None]
    ELSE [t   |-> free_node(t, removed),
          ret |-> Some(t.heap[removed].value)]

\* Box::from_raw(removed), move the value out, self.len -= 1 (a usize: the
\* subtraction panics on underflow in a build with overflow checks)
take_removed(t, removed) ==
    IF t.panic THEN [t |-> t, ret |-> None]
    ELSE IF t.len = 0 THEN [t |-> Panic(t), ret |-> None]
    ELSE [t   |-> [free_node(t, removed) EXCEPT !.len = t.len - 1],
          ret |-> Some(t.heap[removed].value)]

\* remove following its comment "if removed node is root or red, just remove
\* it": no fixup when the unlinked node was the root
remove_root_without_fixup(t, key) ==
    LET b       == bs_remove(t, key)
        removed == b.node
    IN  IF b.t.panic THEN [t |-> b.t, ret |-> None]
        ELSE IF is_nil(removed) THEN [t |-> b.t, ret |-> None]
        ELSE IF b.t.heap[removed].color = Red \/ is_header(b.t.heap[removed].parent)
        THEN take_removed(b.t, removed)
        ELSE LET left         == b.t.heap[removed].left
                 right        == b.t.heap[removed].right
                 double_black == IF ~is_nil(left) THEN left ELSE right
             IN  take_removed(remove_fixup(b.t, double_black, b.t.heap[removed].parent),
                              removed)

\* remove without the early return on `self.is_nil(removed)`
remove_without_nil_check(t, key) ==
    LET b       == bs_remove(t, key)
        removed == b.node
    IN  IF b.t.panic THEN [t |-> b.t, ret |-> None]
        ELSE IF b.t.heap[removed].color = Red THEN take_removed(b.t, removed)
        ELSE LET left         == b.t.heap[removed].left
                 right        == b.t.heap[removed].right
                 double_black == IF ~is_nil(left) THEN left ELSE right
             IN  take_removed(remove_fixup(b.t, double_black, b.t.heap[removed].parent),
                              removed)

\* remove without the early return for a Red removed node: the fixup runs
\* whatever the color
remove_always_fixes_up(t, key) ==
    LET b       == bs_remove(t, key)
        removed == b.node
    IN  IF b.t.panic THEN [t |-> b.t, ret |-> None]
        ELSE IF is_nil(removed) THEN [t |-> b.t, ret |-> None]
        ELSE LET left         == b.t.heap[removed].left
                 right        == b.t.heap[removed].right
                 double_black == IF ~is_nil(left) THEN left ELSE right
             IN  take_removed(remove_fixup(b.t, double_black, b.t.heap[removed].parent),
                              removed)

remove(t, key) ==
    LET b       == bs_remove(t, key)
        removed == b.node
    IN  IF b.t.panic THEN [t |-> b.t, ret |-> None]
        ELSE IF is_nil(removed) THEN [t |-> b.t, ret |-> None]
        ELSE IF b.t.heap[removed].color = Red THEN take_removed(b.t, removed)
        ELSE LET left         == b.t.heap[removed].left
                 right        == b.t.heap[removed].right
                 double_black == IF ~is_nil(left) THEN left ELSE right
             IN  take_removed(remove_fixup(b.t, double_black, b.t.heap[removed].parent),
                              removed)

\* The ledger of the payloads.  The s-th call of insert hands over key
\* instance s and value instance s (the value stored is s itself).
\*   state:       "alive" until the tree is dropped
\*   handed:      the number of calls of insert so far
\*   key_at:      for each key in the tree, the key instance its node holds
\*   key_drops:   the key instances whose destructor ran (a bag)
\*   value_drops: the value instances whose destructor ran (a bag)
\*   returned:    the value instances moved out to the caller (a bag)
ledger ==
    [state |-> "alive", handed |-> 0, key_at |-> [k \in {} |-> 0],
     key_drops |-> EmptyBag, value_drops |-> EmptyBag, returned |-> EmptyBag]

\* insert(key, value) with result r.  New node: new_node moves both into the
\* box.  Key already present: bs_insert replaces the value with mem::replace
\* and returns the old one, and its own `key` argument goes out of scope.
insert_payloads(l, key, s, r) ==
    IF r.ret = None
    THEN [l EXCEPT !.handed = s,
                   !.key_at = [k \in (DOMAIN l.key_at) \cup {key} |->
                                  IF k = key THEN s ELSE l.key_at[k]]]
    ELSE [l EXCEPT !.handed = s,
                   !.key_drops = @ (+) SetToBag({s}),
                   !.returned = @ (+) SetToBag({r.ret[1]})]

\* remove(&key) with result r: `let removed_node = *removed_box` moves the
\* node out of its box, which is freed; the value is taken with
\* ManuallyDrop::into_inner(removed_node.value.assume_init()) and returned;
\* the key stays behind in removed_node, a MaybeUninit<ManuallyDrop<K>>,
\* whose end of scope runs no destructor.
remove_payloads(l, key, r) ==
    IF r.ret = None THEN l
    ELSE [l EXCEPT !.key_at = [k \in (DOMAIN l.key_at) \ {key} |-> l.key_at[k]],
                   !.returned = @ (+) SetToBag({r.ret[1]})]

\* ----------------------- binary_search_tree/binary_search_tree_impl.rs
\* The plain variant (SimpleBST).  Its constructor, its position lookup, its
\* predecessor walk and its descent loops are the same code as RBTree's and
\* are modelled by the same operators (new, get_parent_node_position,
\* inorder_predecessor, bs_insert_descend, bs_remove_descend, swap_payload,
\* remove_node_with_no_child); what differs is modelled here.
\* Box::new(RBNode { color: Black, .. }): "All nodes are black in a simple BST"
simple_new_node(t, key, value) ==
    LET ptr == CHOOSE p \in 0..Cardinality(DOMAIN t.heap) : p \notin DOMAIN t.heap
    IN  [t   |-> [t EXCEPT !.heap = t.heap @@ (ptr :> RBNode(key, value, Black, nil, nil, nil))],
         ptr |-> ptr]

simple_bs_insert(t, key, value) ==
    LET d == bs_insert_descend(t, header, t.heap[header].right, Right, key)
    IN  IF d.found
        THEN [t      |-> [t EXCEPT !.heap[d.cur].value = value],
              result |-> [old |-> TRUE, old_value |-> t.heap[d.cur].value, node |-> nil]]
        ELSE LET n  == simple_new_node(t, key, value)
                 t1 == set_parent(n.t, n.ptr, d.parent)
                 t2 == IF d.node_position = Left
                       THEN set_left(t1, d.parent, n.ptr)
                       ELSE set_right(t1, d.parent, n.ptr)
             IN  [t      |-> t2,
                  result |-> [old |-> FALSE, old_value |-> Uninit, node |-> n.ptr]]

\* BinarySearchTree::insert
simple_insert(t, key, value) ==
    LET b == simple_bs_insert(t, key, value)
    IN  IF b.result.old
        THEN [t |-> b.t, ret |-> Some(b.result.old_value)]
        ELSE [t |-> [b.t EXCEPT !.len = b.t.len + 1], ret |-> None]

\* the child is re-parented only when it is not nil; no panic of its own
simple_remove_node_with_one_child(t, node) ==
    IF t.panic \/ is_nil(node) THEN t
    ELSE LET parent   == t.heap[node].parent
             left     == t.heap[node].left
             right    == t.heap[node].right
             child    == IF is_nil(left) THEN right ELSE left
             position == get_parent_node_position(t, parent, node)
         IN  IF position = PanicPos THEN Panic(t)
             ELSE LET t1 == IF position = Left THEN set_left(t, parent, child)
                            ELSE set_right(t, parent, child)
                  IN  IF ~is_nil(child) THEN set_parent(t1, child, parent) ELSE t1

simple_remove_node_with_no_or_one_child(t, node) ==
    IF t.panic \/ is_nil(node) THEN t
    ELSE LET left  == t.heap[node].left
             right == t.heap[node].right
         IN  IF is_nil(left) /\ is_nil(right) THEN remove_node_with_no_child(t, node)
             ELSE IF ~is_nil(left) /\ ~is_nil(right) THEN Panic(t)
             ELSE simple_remove_node_with_one_child(t, node)

\* simple_bs_remove exchanging only the keys with the predecessor
simple_bs_remove_keys_only(t, key) ==
    LET cur == bs_remove_descend(t, t.heap[header].right, key)
    IN  IF is_nil(cur) THEN [t |-> t, node |-> cur]
        ELSE IF ~is_nil(t.heap[cur].left) /\ ~is_nil(t.heap[cur].right)
        THEN LET pred == inorder_predecessor(t, cur)
                 t1   == swap_payload_keys_only(t, pred, cur)
             IN  [t |-> simple_remove_node_with_no_or_one_child(t1, pred), node |-> pred]
        ELSE [t |-> simple_remove_node_with_no_or_one_child(t, cur), node |-> cur]

simple_bs_remove(t, key) ==
    LET cur == bs_remove_descend(t, t.heap[header].right, key)
    IN  IF is_nil(cur) THEN [t |-> t, node |-> cur]
        ELSE IF ~is_nil(t.heap[cur].left) /\ ~is_nil(t.heap[cur].right)
        THEN LET pred == inorder_predecessor(t, cur)
                 t1   == swap_payload(t, pred, cur)
             IN  [t |-> simple_remove_node_with_no_or_one_child(t1, pred), node |-> pred]
        ELSE [t |-> simple_remove_node_with_no_or_one_child(t, cur), node |-> cur]

\* BinarySearchTree::remove: len -= 1, the key and the value are read out of
\* the unlinked node, the node is freed, Some((key, value)) is returned
simple_remove(t, key) ==
    LET b    == simple_bs_remove(t, key)
        node == b.node
    IN  IF b.t.panic THEN [t |-> b.t, ret |-> None]
        ELSE IF is_nil(node) THEN [t |-> b.t, ret |-> None]
        ELSE IF b.t.len = 0 THEN [t |-> Panic(b.t), ret |-> None]
        ELSE [t   |-> [free_node(b.t, node) EXCEPT !.len = b.t.len - 1],
              ret |-> Some(<<b.t.heap[node].key, b.t.heap[node].value>>)]

simple_is_empty(t) == t.len = 0

\* traverse_kv collecting the (key, value) pairs it is called with
RECURSIVE simple_traverse_kv_from(_, _)
simple_traverse_kv_from(t, node) ==
    IF is_nil(node) THEN <<>>
    ELSE simple_traverse_kv_from(t, t.heap[node].left)
         \o <<<<t.heap[node].key, t.heap[node].value>>>>
         \o simple_traverse_kv_from(t, t.heap[node].right)

simple_traverse_kv(t) == simple_traverse_kv_from(t, t.heap[header].right)

\* ------------------------------------------------------------ iter.rs
\* RBTreeIter::next repeated until it returns None, collected into a Vec
RECURSIVE iter_collect(_, _)
iter_collect(t, ptr) ==
    IF is_nil(ptr) THEN <<>>
    ELSE <<<<t.heap[ptr].key, t.heap[ptr].value>>>>
         \o iter_collect(t, inorder_successor(t, ptr))

\* RBTree::iter: first = inorder_successor(header)
iter(t) == iter_collect(t, inorder_successor(t, header))

\* RBTree::traverse (in-order callback walk), as the list of visited nodes
RECURSIVE traverse_from(_, _)
traverse_from(t, node) ==
    IF is_nil(node) THEN <<>>
    ELSE traverse_from(t, t.heap[node].left) \o <<node>>
         \o traverse_from(t, t.heap[node].right)

traverse(t) == traverse_from(t, t.heap[header].right)

count_nodes(t) == Len(traverse(t))

\* lib.rs, the `for node in nodes` loop of Drop for RBTree: Box::from_raw,
\* ManuallyDrop::drop of the key and of the value, drop of the box
RECURSIVE drop_nodes(_, _, _)
drop_nodes(t, l, nodes) ==
    IF nodes = <<>> THEN [t |-> t, life |-> l]
    ELSE LET node == Head(nodes)
         IN  drop_nodes(free_node(t, node),
                        [l EXCEPT !.key_drops = @ (+) SetToBag({l.key_at[t.heap[node].key]}),
                                  !.value_drops = @ (+) SetToBag({t.heap[node].value})],
                        Tail(nodes))

\* Drop for RBTree: the data nodes found by traverse, then the header, then
\* nil
drop_tree(t, l) ==
    LET d == drop_nodes(t, l, traverse(t))
    IN  [t    |-> free_node(free_node(d.t, header), nil),
         life |-> [d.life EXCEPT !.state = "dropped", !.key_at = [k \in {} |-> 0]]]

\* RBTreeIterMut::next repeated until it returns None
RECURSIVE iter_mut_collect(_, _)
iter_mut_collect(t, ptr) ==
    IF is_nil(ptr) THEN <<>>
    ELSE LET next == inorder_successor(t, ptr)
         IN  <<<<t.heap[ptr].key, t.heap[ptr].value>>>> \o iter_mut_collect(t, next)

\* RBTree::iter_mut
iter_mut(t) == iter_mut_collect(t, inorder_successor(t, header))

\* IntoIterator for RBTree: the RBTreeIntoIter { ptr, rb_tree, consumed_nodes }
\* (rb_tree is the tree itself, moved into the iterator)
into_iter(t) ==
    [state |-> "iterating", ptr |-> inorder_successor(t, header), consumed_nodes |-> {}]

\* RBTreeIntoIter::next without `self.consumed_nodes.insert(self.ptr)`
into_iter_next_untracked(t, i) ==
    IF is_nil(i.ptr) THEN [it |-> i, item |-> None]
    ELSE LET next == inorder_successor(t, i.ptr)
         IN  [it   |-> [i EXCEPT !.ptr = next],
              item |-> Some(<<t.heap[i.ptr].key, t.heap[i.ptr].value>>)]

\* RBTreeIntoIter::next: the key and value are read out of the node, which
\* stays linked in the tree and is recorded as consumed
into_iter_next(t, i) ==
    IF is_nil(i.ptr) THEN [it |-> i, item |-> None]
    ELSE LET next == inorder_successor(t, i.ptr)
         IN  [it   |-> [i EXCEPT !.ptr = next,
                                 !.consumed_nodes = i.consumed_nodes \cup {i.ptr}],
              item |-> Some(<<t.heap[i.ptr].key, t.heap[i.ptr].value>>)]

\* the `for node in all_nodes` loop of Drop for RBTreeIntoIter: the box of
\* every node is freed; key and value are dropped unless they were moved out
RECURSIVE drop_all_nodes(_, _, _, _)
drop_all_nodes(t, m, all_nodes, consumed_nodes) ==
    IF all_nodes = <<>> THEN [t |-> t, mem |-> m]
    ELSE LET node == Head(all_nodes)
             m1   == IF node \in consumed_nodes THEN m
                     ELSE [m EXCEPT !.key_drops   = Append(@, node),
                                    !.value_drops = Append(@, node)]
         IN  drop_all_nodes(free_node(t, node),
                            [m1 EXCEPT !.freed = Append(@, node)],
                            Tail(all_nodes), consumed_nodes)

\* Drop for RBTreeIntoIter: the data nodes, then the header, then nil
into_iter_drop(t, i, m) ==
    LET all_nodes == traverse(t)
        d         == drop_all_nodes(t, m, all_nodes, i.consumed_nodes)
    IN  [t   |-> free_node(free_node(d.t, header), nil),
         mem |-> [d.mem EXCEPT !.freed = Append(Append(@, header), nil)]]

\* ------------------------------------- binary_search_tree/validate.rs
\* Result<(), E>: Ok(()) and Err(e), the error reduced to its variant
Ok == [ok |-> TRUE, err |-> "none"]

Err(e) == [ok |-> FALSE, err |-> e]

\* bounds are Option<&K>
RECURSIVE validate_bst_recursive(_, _, _, _)
validate_bst_recursive(t, node, min_bound, max_bound) ==
    IF is_nil(node) THEN Ok
    ELSE LET key == t.heap[node].key
         IN  IF min_bound # None /\ key <= min_bound[1] THEN Err("BST violation")
             ELSE IF max_bound # None /\ key >= max_bound[1] THEN Err("BST violation")
             ELSE LET l == validate_bst_recursive(t, t.heap[node].left, min_bound, Some(key))
                  IN  IF ~l.ok THEN l
                      ELSE validate_bst_recursive(t, t.heap[node].right, Some(key), max_bound)

RECURSIVE validate_parent_child_consistency(_, _)
validate_parent_child_consistency(t, node) ==
    IF is_nil(node) THEN Ok
    ELSE LET left  == t.heap[node].left
             right == t.heap[node].right
             l == IF is_nil(left) THEN Ok
                  ELSE IF t.heap[left].parent # node
                  THEN Err("Parent-child inconsistency")
                  ELSE validate_parent_child_consistency(t, left)
         IN  IF ~l.ok THEN l
             ELSE IF is_nil(right) THEN Ok
             ELSE IF t.heap[right].parent # node THEN Err("Parent-child inconsistency")
             ELSE validate_parent_child_consistency(t, right)

validate_structure(t) ==
    LET root_ == t.heap[header].right
    IN  IF is_nil(root_) THEN Ok
        ELSE IF t.heap[root_].parent # header
        THEN Err("Root node's parent should be header")
        ELSE validate_parent_child_consistency(t, root_)

\* the DFS of validate_no_cycles with its two HashSets
RECURSIVE detect_cycle_util(_, _, _, _)
detect_cycle_util(t, node, visited, rec_stack) ==
    IF is_nil(node) THEN [res |-> Ok, visited |-> visited, rec_stack |-> rec_stack]
    ELSE IF node \in rec_stack
    THEN [res |-> Err("Cycle detected"), visited |-> visited, rec_stack |-> rec_stack]
    ELSE IF node \in visited
    THEN [res |-> Ok, visited |-> visited, rec_stack |-> rec_stack]
    ELSE LET l == detect_cycle_util(t, t.heap[node].left,
                                    visited \cup {node}, rec_stack \cup {node})
         IN  IF ~l.res.ok THEN l
             ELSE LET r == detect_cycle_util(t, t.heap[node].right, l.visited, l.rec_stack)
                  IN  IF ~r.res.ok THEN r
                      ELSE [r EXCEPT !.rec_stack = r.rec_stack \ {node}]

validate_no_cycles(t) ==
    LET root_ == t.heap[header].right
    IN  IF is_nil(root_) THEN Ok
        ELSE detect_cycle_util(t, root_, {}, {}).res

validate_bst(t) ==
    LET s == validate_structure(t)
    IN  IF ~s.ok THEN s
        ELSE LET root_ == t.heap[header].right
                 b == IF is_nil(root_) THEN Ok
                      ELSE validate_bst_recursive(t, root_, None, None)
             IN  IF ~b.ok THEN b
                 ELSE validate_no_cycles(t)

\* ----------------------------------------------------------- validate.rs
\* Result<usize, RBTreeError>: the black height of the subtree, or the error
RECURSIVE validate_subtree(_, _)
validate_subtree(t, node) ==
    IF is_nil(node) THEN [ok |-> TRUE, err |-> "none", height |-> 1]
    ELSE LET n == t.heap[node]
         IN  IF n.color = Red /\ t.heap[n.left].color = Red
             THEN [ok |-> FALSE, err |-> "RedParentRedChild", height |-> 0]
             ELSE IF n.color = Red /\ t.heap[n.right].color = Red
             THEN [ok |-> FALSE, err |-> "RedParentRedChild", height |-> 0]
             ELSE LET l == validate_subtree(t, n.left)
                  IN  IF ~l.ok THEN l
                      ELSE LET r == validate_subtree(t, n.right)
                           IN  IF ~r.ok THEN r
                               ELSE IF l.height # r.height
                               THEN [ok |-> FALSE, err |-> "BlackHeightMismatch", height |-> 0]
                               ELSE [ok |-> TRUE, err |-> "none",
                                     height |-> l.height + IF n.color = Black THEN 1 ELSE 0]

\* validate with the check "property 2: root is black" left out
validate_without_root_check(t) ==
    IF ~validate_bst(t).ok THEN Err("BSTViolation")
    ELSE LET root_ == t.heap[header].right
         IN  IF is_nil(root_) THEN Ok
             ELSE LET s == validate_subtree(t, root_)
                  IN  IF s.ok THEN Ok ELSE Err(s.err)

validate(t) ==
    IF ~validate_bst(t).ok THEN Err("BSTViolation")
    ELSE LET root_ == t.heap[header].right
         IN  IF is_nil(root_) THEN Ok
             ELSE IF t.heap[root_].color = Red THEN Err("RootNotBlack")
             ELSE LET s == validate_subtree(t, root_)
                  IN  IF s.ok THEN Ok ELSE Err(s.err)

\* ------------------------------------------------- addresses (NodePtr)
\* The program only ever compares node addresses for equality, so two heaps
\* that differ by a renaming of the data-node addresses are the same program
\* state.  The state machine keeps one representative of each class: between
\* two calls the data node holding key k sits at address k + 1.  Inside a
\* call nothing is renamed, and a heap in which two nodes hold the same key
\* is left as it is.
data_nodes(t) == (DOMAIN t.heap) \ {nil, header}

canonical(t) ==
    LET D == data_nodes(t)
        to(x) == IF x \in D THEN t.heap[x].key + 1 ELSE x
        from == [p \in {to(q) : q \in DOMAIN t.heap} |->
                    CHOOSE q \in DOMAIN t.heap : to(q) = p]
    IN  IF Cardinality({t.heap[q].key : q \in D}) # Cardinality(D) THEN t
        ELSE [t EXCEPT !.heap =
                [p \in DOMAIN from |->
                    [t.heap[from[p]] EXCEPT !.left = to(@), !.right = to(@),
                                            !.parent = to(@)]]]

\* ------------------------------------------------------- the state machine
\* heap, len, panic: the RBTree and the nodes it owns
\* std_tree:         the reference BTreeMap driven with the same calls
\* op, ret:          the last call made and the value it returned (recorded
\*                   in the key/value runs)
\* inserted_keys, new_inserts, removed: bookkeeping of the size-accounting
\*                   runs (distinct keys ever inserted, inserts that returned
\*                   None, removes that returned Some)
\* it:               the RBTreeIntoIter made from the tree (state "none" while
\*                   the tree has not been consumed)
\* items:            the Vec of the entries the consuming iterator has yielded
\* mem:              the log of the allocator and of the payload destructors:
\*                   pointers freed, nodes whose key / value was dropped
\* writes:           the number of node fields overwritten behind the tree's
\*                   back (validation runs)
\* life:             the ledger of the payloads handed to insert (ownership
\*                   runs): what became of every key and every value
VARIABLES heap, len, panic, std_tree, op, ret, inserted_keys, new_inserts, removed,
          it, items, mem, writes, life

vars == <<heap, len, panic, std_tree, op, ret, inserted_keys, new_inserts, removed,
         it, items, mem, writes, life>>

\* the RBTree value the program holds
tree == [heap |-> heap, len |-> len, panic |-> panic]

\* the value every structural test stores: tree.insert(key, "")
unit_value == 1

Init ==
    /\ heap = new.heap
    /\ len = new.len
    /\ panic = new.panic
    /\ std_tree = [k \in {} |-> None]
    /\ op = [kind |-> "new", key |-> Uninit, value |-> Uninit]
    /\ ret = None
    /\ inserted_keys = {}
    /\ new_inserts = 0
    /\ removed = 0
    /\ it = [state |-> "none", ptr |-> nil, consumed_nodes |-> {}]
    /\ items = <<>>
    /\ mem = [freed |-> <<>>, key_drops |-> <<>>, value_drops |-> <<>>]
    /\ writes = 0
    /\ life = ledger

\* BTreeMap::insert / BTreeMap::remove of the reference map
std_insert(m, k, v) == [x \in (DOMAIN m) \cup {k} |-> IF x = k THEN v ELSE m[x]]

std_remove(m, k) == [x \in (DOMAIN m) \ {k} |-> m[x]]

\* the effect of a call with result r on the tree, with the reference map
\* becoming m
Call(r, m) ==
    /\ heap' = canonical(r.t).heap
    /\ len' = r.t.len
    /\ panic' = r.t.panic
    /\ std_tree' = m

\* structural runs: integration_test.rs (one value, many keys)
Insert(k) ==
    /\ ~panic
    /\ Call(insert(tree, k, unit_value), std_insert(std_tree, k, unit_value))
    /\ UNCHANGED <<op, ret, inserted_keys, new_inserts, removed, it, items, mem, writes, life>>

Remove(k) ==
    /\ ~panic
    /\ Call(remove(tree, k), std_remove(std_tree, k))
    /\ UNCHANGED <<op, ret, inserted_keys, new_inserts, removed, it, items, mem, writes, life>>

Next ==
    \/ \E k \in Keys : Insert(k)
    \/ \E k \in Keys : Remove(k)

Spec == Init /\ [][Next]_vars

\* key/value runs: differential_test.rs (fewer keys, several values), with
\* the call and its result recorded
\* my_tree.insert(k, v); std_tree.insert(k, v)
InsertKV(k, v) ==
    /\ ~panic
    /\ LET r == insert(tree, k, v)
       IN  /\ Call(r, std_insert(std_tree, k, v))
           /\ ret' = r.ret
    /\ op' = [kind |-> "insert", key |-> k, value |-> v]
    /\ UNCHANGED <<inserted_keys, new_inserts, removed, it, items, mem, writes, life>>

\* my_tree.remove(&k); std_tree.remove(&k)
RemoveKV(k) ==
    /\ ~panic
    /\ LET r == remove(tree, k)
       IN  /\ Call(r, std_remove(std_tree, k))
           /\ ret' = r.ret
    /\ op' = [kind |-> "remove", key |-> k, value |-> Uninit]
    /\ UNCHANGED <<inserted_keys, new_inserts, removed, it, items, mem, writes, life>>

\* tree.get(&k)
GetKV(k) ==
    /\ ~panic
    /\ op' = [kind |-> "get", key |-> k, value |-> Uninit]
    /\ ret' = search(tree, k)
    /\ UNCHANGED <<heap, len, panic, std_tree, inserted_keys, new_inserts, removed,
                   it, items, mem, writes, life>>

NextKV ==
    \/ \E k \in KeysKV, v \in Values : InsertKV(k, v)
    \/ \E k \in KeysKV : RemoveKV(k)
    \/ \E k \in KeysKV : GetKV(k)

SpecKV == Init /\ [][NextKV]_vars

\* size-accounting runs: the same calls with the bookkeeping of the counts
CountedInsert(k) ==
    /\ ~panic
    /\ new_inserts + removed < MaxCalls
    /\ LET r == insert(tree, k, unit_value)
       IN  /\ Call(r, std_insert(std_tree, k, unit_value))
           /\ new_inserts' = IF r.ret = None THEN new_inserts + 1 ELSE new_inserts
    /\ inserted_keys' = inserted_keys \cup {k}
    /\ UNCHANGED <<op, ret, removed, it, items, mem, writes, life>>

CountedRemove(k) ==
    /\ ~panic
    /\ new_inserts + removed < MaxCalls
    /\ LET r == remove(tree, k)
       IN  /\ Call(r, std_remove(std_tree, k))
           /\ removed' = IF r.ret # None THEN removed + 1 ELSE removed
    /\ UNCHANGED <<op, ret, inserted_keys, new_inserts, it, items, mem, writes, life>>

NextCount ==
    \/ \E k \in KeysCount : CountedInsert(k)
    \/ \E k \in KeysCount : CountedRemove(k)

SpecCount == Init /\ [][NextCount]_vars

\* consuming runs: a tree built by inserts and removes is turned into its
\* consuming iterator, which yields some entries and is then dropped
IterInsert(k, v) ==
    /\ it.state = "none"
    /\ ~panic
    /\ Call(insert(tree, k, v), std_insert(std_tree, k, v))
    /\ UNCHANGED <<op, ret, inserted_keys, new_inserts, removed, it, items, mem, writes, life>>

IterRemove(k) ==
    /\ it.state = "none"
    /\ ~panic
    /\ Call(remove(tree, k), std_remove(std_tree, k))
    /\ UNCHANGED <<op, ret, inserted_keys, new_inserts, removed, it, items, mem, writes, life>>

\* let mut iter = tree.into_iter()
IntoIter ==
    /\ it.state = "none"
    /\ ~panic
    /\ it' = into_iter(tree)
    /\ UNCHANGED <<heap, len, panic, std_tree, op, ret, inserted_keys, new_inserts,
                   removed, items, mem, writes, life>>

\* items.push(iter.next().unwrap()), or the None that ends a for loop
IntoIterNext ==
    /\ it.state = "iterating"
    /\ LET r == into_iter_next(tree, it)
       IN  /\ it' = r.it
           /\ items' = IF r.item = None THEN items ELSE Append(items, r.item[1])
    /\ UNCHANGED <<heap, len, panic, std_tree, op, ret, inserted_keys, new_inserts,
                   removed, mem, writes, life>>

\* drop(iter), also at the end of a for loop
IntoIterDrop ==
    /\ it.state = "iterating"
    /\ LET d == into_iter_drop(tree, it, mem)
       IN  /\ heap' = d.t.heap
           /\ mem' = d.mem
    /\ it' = [it EXCEPT !.state = "dropped"]
    /\ UNCHANGED <<len, panic, std_tree, op, ret, inserted_keys, new_inserts,
                   removed, items, writes, life>>

NextIter ==
    \/ \E k \in KeysKV, v \in Values : IterInsert(k, v)
    \/ \E k \in KeysKV : IterRemove(k)
    \/ IntoIter
    \/ IntoIterNext
    \/ IntoIterDrop

SpecIter == Init /\ [][NextIter]_vars

\* validation runs: a tree built by inserts and removes, possibly with up to
\* MaxWrites node fields overwritten behind the tree's back, is handed to
\* validate
BuildInsert(k) ==
    /\ op.kind = "new"
    /\ ~panic
    /\ Call(insert(tree, k, unit_value), std_insert(std_tree, k, unit_value))
    /\ UNCHANGED <<op, ret, inserted_keys, new_inserts, removed, it, items, mem, writes, life>>

BuildRemove(k) ==
    /\ op.kind = "new"
    /\ ~panic
    /\ Call(remove(tree, k), std_remove(std_tree, k))
    /\ UNCHANGED <<op, ret, inserted_keys, new_inserts, removed, it, items, mem, writes, life>>

\* a write through a NodePtr: node.key, node.color, node.left, node.right or
\* node.parent of a data node, or header.right
Overwrite(n) ==
    /\ op.kind \in {"new", "write"}
    /\ writes < MaxWrites
    /\ ~panic
    /\ \/ /\ n \in data_nodes(tree)
          /\ \/ \E k \in KeysCount : heap' = [heap EXCEPT ![n].key = k]
             \/ \E c \in {Red, Black} : heap' = [heap EXCEPT ![n].color = c]
             \/ \E x \in DOMAIN heap : heap' = [heap EXCEPT ![n].left = x]
             \/ \E x \in DOMAIN heap : heap' = [heap EXCEPT ![n].right = x]
             \/ \E x \in DOMAIN heap : heap' = [heap EXCEPT ![n].parent = x]
       \/ /\ is_header(n)
          /\ \E x \in DOMAIN heap : heap' = [heap EXCEPT ![n].right = x]
    /\ heap' # heap
    /\ writes' = writes + 1
    /\ op' = [kind |-> "write", key |-> n, value |-> Uninit]
    /\ UNCHANGED <<len, panic, std_tree, ret, inserted_keys, new_inserts, removed,
                   it, items, mem, life>>

\* tree.validate()
Validate ==
    /\ op.kind \in {"new", "write"}
    /\ ~panic
    /\ op' = [op EXCEPT !.kind = "validate"]
    /\ ret' = validate(tree)
    /\ UNCHANGED <<heap, len, panic, std_tree, inserted_keys, new_inserts, removed,
                   it, items, mem, writes, life>>

NextValidate ==
    \/ \E k \in KeysCount : BuildInsert(k)
    \/ \E k \in KeysCount : BuildRemove(k)
    \/ \E n \in DOMAIN heap : Overwrite(n)
    \/ Validate

SpecValidate == Init /\ [][NextValidate]_vars

\* runs of the plain variant: the same calls on a SimpleBST and on the
\* reference map
SimpleInsert(k, v) ==
    /\ ~panic
    /\ Call(simple_insert(tree, k, v), std_insert(std_tree, k, v))
    /\ UNCHANGED <<op, ret, inserted_keys, new_inserts, removed, it, items, mem, writes, life>>

SimpleRemove(k) ==
    /\ ~panic
    /\ Call(simple_remove(tree, k), std_remove(std_tree, k))
    /\ UNCHANGED <<op, ret, inserted_keys, new_inserts, removed, it, items, mem, writes, life>>

NextPlain ==
    \/ \E k \in KeysPlain, v \in Values : SimpleInsert(k, v)
    \/ \E k \in KeysPlain : SimpleRemove(k)

SpecPlain == Init /\ [][NextPlain]_vars

\* skeleton runs: the unit tests of binary_tree.rs build a tree with
\* bs_insert alone (no rebalancing), rotate it about its nodes and query it;
\* a query ends the run
building == op.kind \in {"new", "bs_insert", "rotate_left", "rotate_right"}

\* tree.bs_insert(k, "")
BsInsert(k) ==
    /\ ~panic
    /\ building
    /\ LET b == bs_insert(tree, k, unit_value)
       IN  /\ heap' = canonical(b.t).heap
           /\ len' = b.t.len
           /\ panic' = b.t.panic
    /\ op' = [kind |-> "bs_insert", key |-> k, value |-> Uninit]
    /\ UNCHANGED <<std_tree, ret, inserted_keys, new_inserts, removed, it, items, mem,
                   writes, life>>

\* tree.rotate_left(node)
RotateLeft(node) ==
    /\ ~panic
    /\ building
    /\ LET r == rotate_left(tree, node)
       IN  heap' = r.heap /\ len' = r.len /\ panic' = r.panic
    /\ op' = [kind |-> "rotate_left", key |-> node, value |-> Uninit]
    /\ UNCHANGED <<std_tree, ret, inserted_keys, new_inserts, removed, it, items, mem,
                   writes, life>>

\* tree.rotate_right(node)
RotateRight(node) ==
    /\ ~panic
    /\ building
    /\ LET r == rotate_right(tree, node)
       IN  heap' = r.heap /\ len' = r.len /\ panic' = r.panic
    /\ op' = [kind |-> "rotate_right", key |-> node, value |-> Uninit]
    /\ UNCHANGED <<std_tree, ret, inserted_keys, new_inserts, removed, it, items, mem,
                   writes, life>>

\* a query of the skeleton: the call made and the node it returned (a query
\* that panics returns nothing: the fault marker is recorded instead)
Query(kind, node, result) ==
    /\ ~panic
    /\ building
    /\ op' = [kind |-> kind, key |-> node, value |-> Uninit]
    /\ ret' = result
    /\ panic' = (result = PanicNode)
    /\ UNCHANGED <<heap, len, std_tree, inserted_keys, new_inserts, removed, it, items,
                   mem, writes, life>>

InorderPredecessor(node) ==
    Query("inorder_predecessor", node, inorder_predecessor(tree, node))

InorderSuccessor(node) ==
    Query("inorder_successor", node, inorder_successor(tree, node))

Sibling(node) == Query("sibling", node, sibling(tree, node))

Grandparent(node) == Query("grandparent", node, grandparent(tree, node))

Uncle(node) == Query("uncle", node, uncle(tree, node))

\* tree.get_parent_node_position(parent, child)
GetParentNodePosition(parent, child) ==
    /\ ~panic
    /\ building
    /\ op' = [kind |-> "get_parent_node_position", key |-> parent, value |-> child]
    /\ ret' = get_parent_node_position(tree, parent, child)
    /\ panic' = (ret' = PanicPos)
    /\ UNCHANGED <<heap, len, std_tree, inserted_keys, new_inserts, removed, it, items,
                   mem, writes, life>>

NextSkeleton ==
    \/ \E k \in KeysTree : BsInsert(k)
    \/ \E node \in data_nodes(tree) : RotateLeft(node)
    \/ \E node \in data_nodes(tree) : RotateRight(node)
    \/ \E node \in data_nodes(tree) : InorderPredecessor(node)
    \/ \E node \in data_nodes(tree) : InorderSuccessor(node)
    \/ \E node \in data_nodes(tree) : Sibling(node)
    \/ \E node \in data_nodes(tree) : Grandparent(node)
    \/ \E node \in data_nodes(tree) : Uncle(node)
    \/ \E parent, child \in DOMAIN heap : GetParentNodePosition(parent, child)

SpecSkeleton == Init /\ [][NextSkeleton]_vars

\* ownership runs: every call of insert hands over a fresh key instance and
\* a fresh value instance; the tree is dropped at some point
\* tree.insert(k, v)
LifeInsert(k) ==
    /\ life.state = "alive"
    /\ ~panic
    /\ life.handed < MaxHanded
    /\ \A s \in {life.handed + 1} :
       \A r \in {insert(tree, k, s)} :
           /\ Call(r, std_insert(std_tree, k, s))
           /\ life' = insert_payloads(life, k, s, r)
    /\ UNCHANGED <<op, ret, inserted_keys, new_inserts, removed, it, items, mem, writes>>

\* tree.remove(&k)
LifeRemove(k) ==
    /\ life.state = "alive"
    /\ ~panic
    /\ \A r \in {remove(tree, k)} :
           /\ Call(r, std_remove(std_tree, k))
           /\ life' = remove_payloads(life, k, r)
    /\ UNCHANGED <<op, ret, inserted_keys, new_inserts, removed, it, items, mem, writes>>

\* drop(tree)
LifeDrop ==
    /\ life.state = "alive"
    /\ ~panic
    /\ \A d \in {drop_tree(tree, life)} :
           /\ heap' = d.t.heap
           /\ life' = d.life
    /\ UNCHANGED <<len, panic, std_tree, op, ret, inserted_keys, new_inserts, removed,
                   it, items, mem, writes>>

NextLife ==
    \/ \E k \in KeysLife : LifeInsert(k)
    \/ \E k \in KeysLife : LifeRemove(k)
    \/ LifeDrop

SpecLife == Init /\ [][NextLife]_vars

\* ----------------------------------------------------------- properties
root == heap[header].right

\* the nodes of the subtree rooted at n
RECURSIVE subtree(_, _)
subtree(t, n) ==
    IF is_nil(n) THEN {}
    ELSE {n} \cup subtree(t, t.heap[n].left) \cup subtree(t, t.heap[n].right)

\* the numbers of Black nodes met on the paths from n down to nil
RECURSIVE path_blacks(_, _)
path_blacks(t, n) ==
    IF is_nil(n) THEN {0}
    ELSE LET own == IF t.heap[n].color = Black THEN 1 ELSE 0
         IN  {c + own : c \in path_blacks(t, t.heap[n].left)
                               \cup path_blacks(t, t.heap[n].right)}

\* the (key, value) pairs physically stored in data nodes
stored(t) == {<<t.heap[n].key, t.heap[n].value>> : n \in data_nodes(t)}

holds(t, k) == \E n \in data_nodes(t) : t.heap[n].key = k

\* BTreeMap::get of the reference map
std_get(m, k) == IF k \in DOMAIN m THEN Some(m[k]) ELSE None

\* iteration order of the reference BTreeMap: ascending keys
RECURSIVE std_iter(_)
std_iter(m) ==
    IF DOMAIN m = {} THEN <<>>
    ELSE LET k == CHOOSE k \in DOMAIN m : \A j \in DOMAIN m : k <= j
         IN  <<<<k, m[k]>>>> \o std_iter(std_remove(m, k))

\* C1: after every insert/remove, every key in a node's left subtree is
\* strictly less than the node's key and every key in its right subtree is
\* strictly greater.
C1_BSTOrdering ==
    \A n \in data_nodes(tree) :
        /\ \A m \in subtree(tree, heap[n].left)  : heap[m].key < heap[n].key
        /\ \A m \in subtree(tree, heap[n].right) : heap[m].key > heap[n].key

\* a tree whose root has at least three nodes on either side
C1_Witness ==
    /\ ~is_nil(root)
    /\ Cardinality(subtree(tree, heap[root].left)) >= 3
    /\ Cardinality(subtree(tree, heap[root].right)) >= 3

\* C2: after every insert/remove, all paths from a node down to nil carry
\* the same number of Black nodes.
C2_BlackHeight ==
    \A n \in data_nodes(tree) : Cardinality(path_blacks(tree, n)) = 1

\* seven nodes, all Black: a full tree of black-height 3, which only a
\* removal (with its fixup) leaves behind
C2_Witness ==
    /\ len = 7
    /\ \A n \in data_nodes(tree) : heap[n].color = Black

\* C3: after every insert/remove, no Red node has a Red child.
C3_NoRedRed ==
    \A n \in data_nodes(tree) :
        heap[n].color = Red =>
            /\ is_nil(heap[n].left) \/ heap[heap[n].left].color = Black
            /\ is_nil(heap[n].right) \/ heap[heap[n].right].color = Black

\* a Red node with two (Black) children, one of which has a Red child
C3_Witness ==
    \E n \in data_nodes(tree) :
        /\ heap[n].color = Red
        /\ ~is_nil(heap[n].left)
        /\ ~is_nil(heap[n].right)
        /\ \E c \in {heap[n].left, heap[n].right} :
               \E g \in {heap[c].left, heap[c].right} :
                   ~is_nil(g) /\ heap[g].color = Red

\* C4: after every insert/remove, the root of a non-empty tree is Black.
C4_RootBlack == ~is_nil(root) => heap[root].color = Black

\* a root with a Red child
C4_Witness ==
    /\ ~is_nil(root)
    /\ \E c \in {heap[root].left, heap[root].right} :
           ~is_nil(c) /\ heap[c].color = Red

\* C5: after every insert/remove, every data node is the left or right child
\* of the node its parent link names, and its parent is the header exactly
\* when it is the root.
C5_ParentLinks ==
    \A n \in data_nodes(tree) :
        LET p == heap[n].parent
        IN  /\ p \in DOMAIN heap
            /\ heap[p].left = n \/ heap[p].right = n
            /\ is_header(p) <=> n = root

\* a node three links below the root
C5_Witness ==
    \E n \in data_nodes(tree) :
        /\ heap[n].parent \in data_nodes(tree)
        /\ heap[heap[n].parent].parent \in data_nodes(tree)
        /\ heap[heap[heap[n].parent].parent].parent \in data_nodes(tree)

\* C6: iterating the tree yields the sorted (key, value) sequence of the
\* reference map driven with the same inserts and removes.
C6_Differential == iter(tree) = std_iter(std_tree)

\* after a successful remove, at least two entries with different values
C6_Witness ==
    /\ op.kind = "remove"
    /\ ret # None
    /\ \E a, b \in stored(tree) : a[1] < b[1] /\ a[2] # b[2]

\* C7: len() equals the number of data nodes reachable from the root and
\* the number of keys of the reference map.
C7_Len ==
    /\ len = count_nodes(tree)
    /\ len = Cardinality(DOMAIN std_tree)

\* three nodes, all Black (left behind by a removal)
C7_Witness ==
    /\ len = 3
    /\ \A n \in data_nodes(tree) : heap[n].color = Black

\* C8 as stated: len() equals the number of distinct keys ever inserted
\* minus the number of remove calls that returned a value.
C8_DistinctKeysMinusRemoved == len = Cardinality(inserted_keys) - removed

\* C8 (amended): len() equals the number of insert calls that added a key
\* (returned None) minus the number of remove calls that returned a value.
C8_NewInsertsMinusRemoved == len = new_inserts - removed

\* a key inserted again after its removal, with another key still stored
C8_Witness ==
    /\ removed >= 1
    /\ new_inserts > Cardinality(inserted_keys)
    /\ len >= 2

\* C9: insert(k, v2) on a tree holding k with v1 returns Some(v1), keeps
\* len() and makes get(k) return v2; insert(k, v) of an absent key returns
\* None, adds 1 to len() and makes get(k) return v.
C9_Upsert ==
    [][op'.kind = "insert" =>
        LET k  == op'.key
            v  == op'.value
            t1 == [heap |-> heap', len |-> len', panic |-> panic']
        IN  /\ \A v1 \in Values :
                   <<k, v1>> \in stored(tree) =>
                       /\ ret' = Some(v1)
                       /\ len' = len
                       /\ search(t1, k) = Some(v)
            /\ ~holds(tree, k) =>
                   /\ ret' = None
                   /\ len' = len + 1
                   /\ search(t1, k) = Some(v)]_vars

\* an insert that replaced value 1 by value 2 in a tree of several keys
C9_Witness ==
    /\ op.kind = "insert"
    /\ ret = Some(1)
    /\ op.value = 2
    /\ len >= 3

\* C10: remove(k) on a tree holding k returns the value last associated
\* with k, takes 1 from len(), makes get(k) return None and leaves every
\* other key present with its value.
C10_Remove ==
    [][(op'.kind = "remove" /\ holds(tree, op'.key)) =>
        LET k  == op'.key
            t1 == [heap |-> heap', len |-> len', panic |-> panic']
        IN  /\ k \in DOMAIN std_tree
            /\ ret' = Some(std_tree[k])
            /\ len' = len - 1
            /\ search(t1, k) = None
            /\ ~holds(t1, k)
            /\ \A e \in stored(tree) :
                   e[1] # k => e \in stored(t1) /\ search(t1, e[1]) = Some(e[2])]_vars

\* a remove of the middle key of a three-node tree (the root, which has two
\* children) that returned 2 while its in-order predecessor stores 1
C10_Witness ==
    /\ op.kind = "remove"
    /\ ret = Some(2)
    /\ len = 2
    /\ \E a, b \in stored(tree) : a[1] < op.key /\ op.key < b[1] /\ a[2] = 1

\* C11: remove(k) of a key that is not stored returns None, does not fault
\* and leaves every node, link, color, payload and len() as they were.
C11_RemoveAbsent ==
    [][(op'.kind = "remove" /\ ~holds(tree, op'.key)) =>
        /\ ret' = None
        /\ ~panic'
        /\ heap' = heap
        /\ len' = len]_vars

\* a remove that found nothing in a tree of three or more nodes, for a key
\* lying between two stored keys
C11_Witness ==
    /\ op.kind = "remove"
    /\ ret = None
    /\ len >= 3
    /\ \E a, b \in stored(tree) : a[1] < op.key /\ op.key < b[1]


\* C12: after every call, get(k) returns the value of the latest insert of k
\* that no remove of k followed (the reference map's entry) and None for
\* every other key; a get step returns that and changes nothing in the tree.
C12_Get ==
    [][/\ \A k \in KeysKV :
              search([heap |-> heap', len |-> len', panic |-> panic'], k)
                  = std_get(std_tree', k)
       /\ op'.kind = "get" =>
              /\ ret' = std_get(std_tree, op'.key)
              /\ heap' = heap
              /\ len' = len
              /\ ~panic']_vars

\* a get that found nothing in a tree of three or more entries, for a key
\* lying between a stored key with value 1 and a stored key with value 2
C12_Witness ==
    /\ op.kind = "get"
    /\ ret = None
    /\ len >= 3
    /\ \E a, b \in stored(tree) : a[2] = 1 /\ b[2] = 2 /\ a[1] < op.key /\ op.key < b[1]


\* the entries of the set S of (key, value) pairs in ascending key order
RECURSIVE ascending(_)
ascending(S) ==
    IF S = {} THEN <<>>
    ELSE LET e == CHOOSE e \in S : \A f \in S : e[1] <= f[1]
         IN  <<e>> \o ascending(S \ {e})

\* C13: iter() and iter_mut() yield every stored entry once, in strictly
\* ascending key order; the consuming iterator has at every moment yielded
\* the first entries of that order, starting with the smallest key, and
\* returns None exactly when it has yielded them all.
C13_IterationOrder ==
    LET all == ascending(stored(tree))
    IN  /\ it.state = "none" =>
            /\ Len(all) = Cardinality(data_nodes(tree))
            /\ iter(tree) = all
            /\ iter_mut(tree) = all
        /\ it.state = "iterating" =>
            /\ Len(items) <= Len(all)
            /\ items = SubSeq(all, 1, Len(items))
            /\ is_nil(it.ptr) <=> Len(items) = Len(all)
            /\ into_iter_next(tree, it).item =
                   IF Len(items) = Len(all) THEN None ELSE Some(all[Len(items) + 1])

\* a consuming iterator that has yielded all four entries of a tree, with
\* different values among them, and is at its end
C13_Witness ==
    /\ it.state = "iterating"
    /\ is_nil(it.ptr)
    /\ Len(items) = 4
    /\ \E i, j \in 1..Len(items) : items[i][2] # items[j][2]


\* the nodes reached from the nodes of S by left and right links
RECURSIVE closure(_, _)
closure(t, S) ==
    LET N == S \cup (({t.heap[n].left : n \in S} \cup {t.heap[n].right : n \in S}) \ {nil})
    IN  IF N = S THEN S ELSE closure(t, N)

\* the nodes of the tree: everything reached from the root
tree_nodes(t) == closure(t, {t.heap[header].right} \ {nil})

\* C14: validate() returns Ok exactly when the tree satisfies the five
\* invariants (consistent parent/child links with the root's parent being the
\* header, BST ordering, Black root, no Red node with a Red child, equal
\* black-height on every path); otherwise it returns one of the errors
\* BSTViolation, RootNotBlack, RedParentRedChild, BlackHeightMismatch; the
\* empty tree validates.
C14_Validate ==
    op.kind = "validate" =>
        LET T == tree_nodes(tree)
            links == /\ \A n \in T : n \in data_nodes(tree)
                     /\ heap[root].parent = header
                     /\ \A n \in T : \A c \in {heap[n].left, heap[n].right} \ {nil} :
                            heap[c].parent = n
            below(c) == closure(tree, {c} \ {nil})
            bst == \A n \in T :
                       /\ \A m \in below(heap[n].left)  : heap[m].key < heap[n].key
                       /\ \A m \in below(heap[n].right) : heap[m].key > heap[n].key
            root_black == heap[root].color = Black
            no_red_red == \A n \in T : heap[n].color = Red =>
                              \A c \in {heap[n].left, heap[n].right} \ {nil} :
                                  heap[c].color = Black
            black_height == \A n \in T : Cardinality(path_blacks(tree, n)) = 1
        IN  /\ ret.ok <=> (T = {} \/ (links /\ bst /\ root_black /\ no_red_red
                                               /\ black_height))
            /\ ~ret.ok => ret.err \in {"BSTViolation", "RootNotBlack",
                                       "RedParentRedChild", "BlackHeightMismatch"}
            /\ is_nil(root) => ret.ok

\* validate has rejected a tree of four nodes for a Red node with a Red child
C14_Witness ==
    /\ op.kind = "validate"
    /\ ret = Err("RedParentRedChild")
    /\ len = 4


\* C15: when the consuming iterator is dropped after yielding any number of
\* entries, every data node and both sentinels are freed exactly once and
\* nothing stays allocated; the key and the value of a yielded entry are not
\* dropped by the iterator, and the key and the value of each entry not
\* yielded are dropped exactly once.
C15_IntoIterDrop ==
    [][(it.state = "iterating" /\ it'.state = "dropped") =>
        LET times(log, p) == Cardinality({i \in 1..Len(log) : log[i] = p})
            yielded == {n \in data_nodes(tree) :
                           \E i \in 1..Len(items) : items[i][1] = heap[n].key}
        IN  /\ Cardinality(yielded) = Len(items)
            /\ DOMAIN heap' = {}
            /\ Len(mem'.freed) = Cardinality(DOMAIN heap)
            /\ \A p \in DOMAIN heap : times(mem'.freed, p) = 1
            /\ \A n \in yielded :
                   times(mem'.key_drops, n) = 0 /\ times(mem'.value_drops, n) = 0
            /\ \A n \in data_nodes(tree) \ yielded :
                   times(mem'.key_drops, n) = 1 /\ times(mem'.value_drops, n) = 1
            /\ Len(mem'.key_drops) = Cardinality(data_nodes(tree) \ yielded)
            /\ Len(mem'.value_drops) = Cardinality(data_nodes(tree) \ yielded)]_vars

\* an iterator over four entries dropped after it yielded two of them
C15_Witness ==
    /\ it.state = "dropped"
    /\ Len(items) = 2
    /\ Len(mem.freed) = 6
    /\ Len(mem.key_drops) = 2
    /\ Len(mem.value_drops) = 2


\* C16: no sequence of insert and remove calls makes the tree fault: none of
\* the panic!, assert! and unreachable! sites of the fixups, the rotations,
\* the position lookups and the splice is ever reached.
C16_NoFault == ~panic

\* eight or more nodes, among them a Red node with two Black children (a
\* tree that insertion and removal fixups have rebalanced several times)
C16_Witness ==
    /\ ~panic
    /\ len >= 8
    /\ \E n \in data_nodes(tree) :
           /\ heap[n].color = Red
           /\ ~is_nil(heap[n].left) /\ heap[heap[n].left].color = Black
           /\ ~is_nil(heap[n].right) /\ heap[heap[n].right].color = Black


\* C17: when remove targets a node with two non-sentinel children, the
\* exchange with the in-order predecessor moves only the two payloads (no
\* link and no color of any node changes); the node spliced out is the
\* predecessor, which has at most one non-sentinel child, so the splice does
\* not fault; the target node stays in its slot (same parent, right link and
\* color, and the same left link unless the predecessor was its left child)
\* and holds the predecessor's key and value after the call.  (Each result
\* of the code is bound once, as the value of a one-element set.)
C17_PredecessorSwap ==
    [][op'.kind = "remove" =>
        \A k \in {op'.key} : \A n \in {search_from(tree, root, k)} :
            (~is_nil(n) /\ ~is_nil(heap[n].left) /\ ~is_nil(heap[n].right)) =>
            \A pred \in {inorder_predecessor(tree, n)} :
            \A s \in {swap_payload(tree, pred, n)}, b \in {bs_remove(tree, k)},
               r \in {remove(tree, k)} :
                /\ pred \in data_nodes(tree) \ {n}
                /\ ~(~is_nil(heap[pred].left) /\ ~is_nil(heap[pred].right))
                /\ \A p \in DOMAIN heap :
                       /\ s.heap[p].left = heap[p].left
                       /\ s.heap[p].right = heap[p].right
                       /\ s.heap[p].parent = heap[p].parent
                       /\ s.heap[p].color = heap[p].color
                       /\ p \notin {n, pred} => s.heap[p] = heap[p]
                /\ s.heap[n].key = heap[pred].key /\ s.heap[n].value = heap[pred].value
                /\ s.heap[pred].key = k /\ s.heap[pred].value = heap[n].value
                /\ ~b.t.panic
                /\ b.node = pred
                /\ b.t.heap[n].parent = heap[n].parent
                /\ b.t.heap[n].right = heap[n].right
                /\ b.t.heap[n].color = heap[n].color
                /\ b.t.heap[n].left = IF heap[n].left = pred THEN heap[pred].left
                                      ELSE heap[n].left
                /\ DOMAIN r.t.heap = (DOMAIN heap) \ {pred}
                /\ r.t.heap[n].key = heap[pred].key
                /\ r.t.heap[n].value = heap[pred].value
                /\ heap' = canonical(r.t).heap
                /\ ret' = Some(heap[n].value)]_vars

\* a remove of the middle key of a three-node tree (its root, whose in-order
\* predecessor is its left child) that returned 1 while the predecessor's
\* value 2 is still stored under the predecessor's key
C17_Witness ==
    /\ op.kind = "remove"
    /\ ret = Some(1)
    /\ len = 2
    /\ \E a, b \in stored(tree) : a[1] < op.key /\ op.key < b[1] /\ a[2] = 2


\* the call of insert_fixup, among those made for red_node and (through the
\* Red-uncle recoloring) its ancestors, that finds a Red parent and a Black
\* uncle: the tree at that moment and the conflicting node
RECURSIVE black_uncle_case(_, _)
black_uncle_case(t, red_node) ==
    LET parent == t.heap[red_node].parent
        no     == [found |-> FALSE, t |-> t, red_node |-> red_node]
    IN  IF is_header(parent) \/ t.heap[parent].color = Black THEN no
        ELSE LET gp == grandparent(t, red_node)
                 un == uncle(t, red_node)
             IN  IF is_nil(gp) \/ un = PanicNode THEN no
                 ELSE IF t.heap[un].color = Black
                 THEN [found |-> TRUE, t |-> t, red_node |-> red_node]
                 ELSE IF is_nil(un) THEN no
                 ELSE black_uncle_case(
                          color_red(color_black(color_black(t, parent), un), gp), gp)

\* C18: when insertion fixup meets a Red parent and a Black (or nil) uncle,
\* the node with the median key among grandparent, parent and conflicting
\* node (the parent in the straight-line cases, the conflicting node in the
\* broken-line cases) ends in the grandparent's slot, Black, with the other
\* two as its Red children, and the fixup stops there: no other node changes
\* color.  From {10, 5} (10 inserted first): inserting 3 makes 5 the Black
\* root with Red children 3 and 10, inserting 7 makes 7 the root.
C18_BlackUncle ==
    [][\A k \in Keys : (~holds(tree, k) /\ heap' # heap /\ k + 1 \in DOMAIN heap') =>
        LET b == bs_insert(tree, k, unit_value)
            c == black_uncle_case(b.t, b.result.node)
            h == canonical(c.t).heap
            n == c.t.heap[c.red_node].key + 1
            p == h[n].parent
            g == h[p].parent
            top == h[g].parent
            straight == (h[g].left = p) <=> (h[p].left = n)
            m == IF straight THEN p ELSE n
            lo == CHOOSE x \in {g, p, n} : \A y \in {g, p, n} : h[x].key <= h[y].key
            hi == CHOOSE x \in {g, p, n} : \A y \in {g, p, n} : h[x].key >= h[y].key
        IN  /\ c.found =>
                /\ {lo, m, hi} = {g, p, n}
                /\ lo # m /\ m # hi
                /\ heap'[m].color = Black
                /\ heap'[m].parent = top
                /\ IF is_header(top) \/ h[top].right = g
                   THEN heap'[top].right = m ELSE heap'[top].left = m
                /\ heap'[m].left = lo /\ heap'[m].right = hi
                /\ heap'[lo].parent = m /\ heap'[hi].parent = m
                /\ heap'[lo].color = Red /\ heap'[hi].color = Red
                /\ \A x \in DOMAIN h \ {g, p, n} : heap'[x].color = h[x].color
            /\ (stored(tree) = {<<10, unit_value>>, <<5, unit_value>>}
                    /\ heap[root].key = 10 /\ k = 3) =>
                /\ c.found
                /\ heap'[root'].key = 5 /\ heap'[root'].color = Black
                /\ heap'[heap'[root'].left].key = 3 /\ heap'[heap'[root'].right].key = 10
                /\ heap'[heap'[root'].left].color = Red
                /\ heap'[heap'[root'].right].color = Red
            /\ (stored(tree) = {<<10, unit_value>>, <<5, unit_value>>}
                    /\ heap[root].key = 10 /\ k = 7) =>
                /\ c.found
                /\ heap'[root'].key = 7]_vars

\* the tree of the example: 5 at the root, Black, with the Red children 3
\* and 10
C18_Witness ==
    /\ stored(tree) = {<<3, unit_value>>, <<5, unit_value>>, <<10, unit_value>>}
    /\ heap[root].key = 5
    /\ heap[root].color = Black
    /\ heap[heap[root].left].color = Red
    /\ heap[heap[root].right].color = Red


\* C19: insert of a key that is already stored changes no link and no color
\* of any node, allocates and frees nothing and runs no fixup; only the value
\* of the node holding that key changes.
C19_UpsertFrame ==
    [][(op'.kind = "insert" /\ holds(tree, op'.key)) =>
        /\ ~panic'
        /\ len' = len
        /\ DOMAIN heap' = DOMAIN heap
        /\ \A p \in DOMAIN heap :
               heap'[p] = IF p \in data_nodes(tree) /\ heap[p].key = op'.key
                          THEN [heap[p] EXCEPT !.value = op'.value]
                          ELSE heap[p]]_vars

\* an insert that replaced the value 2 by 1 at the root of a four-node tree
C19_Witness ==
    /\ op.kind = "insert"
    /\ ret = Some(2)
    /\ op.value = 1
    /\ len = 4
    /\ heap[root].key = op.key
    /\ ~is_nil(heap[root].left)
    /\ ~is_nil(heap[root].right)

\* C20: when the node that remove unlinks is Red, no fixup runs: the tree
\* loses exactly that node, which is a leaf; no remaining node changes color
\* or parent, and the only child link that changes is the slot of the removed
\* node in its parent, which becomes nil.  The key removed by a step is the
\* one the reference map loses.
C20_RedRemoved ==
    [][\A k \in (DOMAIN std_tree) \ (DOMAIN std_tree') :
        \A b \in {bs_remove(tree, k)}, r \in {remove(tree, k)} :
        LET unlinked == b.node
            parent  == heap[unlinked].parent
        IN  b.t.heap[unlinked].color = Red =>
            /\ ~r.t.panic
            /\ heap[unlinked].color = Red
            /\ is_nil(heap[unlinked].left) /\ is_nil(heap[unlinked].right)
            /\ DOMAIN r.t.heap = (DOMAIN heap) \ {unlinked}
            /\ r.t.len = len - 1
            /\ \A p \in (DOMAIN heap) \ {unlinked} :
                   /\ r.t.heap[p].color = heap[p].color
                   /\ r.t.heap[p].parent = heap[p].parent
                   /\ r.t.heap[p].left =
                          IF p = parent /\ heap[p].left = unlinked THEN nil
                          ELSE heap[p].left
                   /\ r.t.heap[p].right =
                          IF p = parent /\ heap[p].right = unlinked THEN nil
                          ELSE heap[p].right
            /\ heap' = canonical(r.t).heap
            /\ len' = len - 1]_vars

\* a Black root with two Black leaves, the tree left when the Red fourth
\* node of a four-node tree is removed (no insert leaves three Black nodes)
C20_Witness ==
    /\ len = 3
    /\ DOMAIN std_tree = {2, 5, 8}
    /\ \A n \in data_nodes(tree) : heap[n].color = Black
    /\ ~is_nil(heap[root].left)
    /\ ~is_nil(heap[root].right)


\* the number of nodes on the longest path from n down to a leaf
RECURSIVE height(_, _)
height(t, n) ==
    IF is_nil(n) THEN 0
    ELSE LET l == height(t, t.heap[n].left)
             r == height(t, t.heap[n].right)
         IN  1 + (IF l >= r THEN l ELSE r)

\* the other child of c.parent, for a logged call c
sibling_at(c) ==
    IF c.heap[c.parent].left = c.double_black THEN c.heap[c.parent].right
    ELSE c.heap[c.parent].left

\* the positions of the remove_fixup entries in a log of calls
fixup_entries(calls) == {i \in DOMAIN calls : calls[i].fn = "remove_fixup"}

\* C21: the removal fixup terminates without a fault.  Every recursive call
\* of remove_fixup is made by remove_fixup_black_sibling from a state in
\* which the sibling and both nephews are Black, on the parent of the current
\* double-black node and that parent's own parent.  A call whose double-black
\* node is the root or Red, and a Black-sibling call with a Red nephew, are
\* the last call; after a Red sibling the Black-sibling case follows and at
\* most one more call is made, on a Red node, which ends the fixup.  The
\* number of recursive calls is at most the height of the tree.
C21_RemoveFixupTerminates ==
    [][\A k \in (DOMAIN std_tree) \ (DOMAIN std_tree') :
        \A r \in {remove(traced(tree), k)} :
        LET calls == r.t.calls
            last  == Len(calls)
        IN  /\ ~r.t.panic
            /\ heap' = canonical(r.t).heap
            /\ Cardinality(fixup_entries(calls)) - 1 <= height(tree, root)
            /\ \A i \in DOMAIN calls :
                   LET c == calls[i]
                       s == sibling_at(c)
                   IN  IF c.fn = "remove_fixup"
                       THEN /\ i > 1 =>
                                LET b == calls[i - 1]
                                    bs == sibling_at(b)
                                IN  /\ b.fn = "remove_fixup_black_sibling"
                                    /\ b.heap[bs].color = Black
                                    /\ b.heap[b.heap[bs].left].color = Black
                                    /\ b.heap[b.heap[bs].right].color = Black
                                    /\ b.double_black \in {b.heap[b.parent].left,
                                                           b.heap[b.parent].right}
                                    /\ c.double_black = b.parent
                                    /\ c.parent = b.heap[b.parent].parent
                            /\ (is_header(c.parent) \/ c.heap[c.double_black].color = Red)
                                   <=> i = last
                            /\ (i < last /\ c.heap[s].color = Red) =>
                                /\ calls[i + 1].fn = "remove_fixup_black_sibling"
                                /\ last <= i + 2
                                /\ last = i + 2 =>
                                       calls[last].heap[calls[last].double_black].color = Red
                       ELSE /\ c.heap[s].color = Black
                            /\ (c.heap[c.heap[s].left].color = Red
                                    \/ c.heap[c.heap[s].right].color = Red) => i = last]_vars

\* a tree in which the removal of some key makes remove_fixup recurse twice,
\* up to the root
C21_Witness ==
    \E k \in DOMAIN std_tree :
        \E r \in {remove(traced(tree), k)} :
            /\ Cardinality(fixup_entries(r.t.calls)) = 3
            /\ is_header(r.t.calls[Len(r.t.calls)].parent)


\* the keys met by the in-order walk of a heap
inorder_keys(h) ==
    LET t == [heap |-> h, len |-> 0, panic |-> FALSE]
        nodes == traverse(t)
    IN  [i \in DOMAIN nodes |-> h[nodes[i]].key]

\* every data node is the left or right child of its parent (the root: the
\* right child of the header) and the parent of its non-nil children
links_consistent(h) ==
    \A x \in (DOMAIN h) \ {nil, header} :
        /\ IF is_header(h[x].parent) THEN h[header].right = x
           ELSE /\ h[x].parent \in (DOMAIN h) \ {nil}
                /\ x \in {h[h[x].parent].left, h[h[x].parent].right}
        /\ ~is_nil(h[x].left) => h[h[x].left].parent = x
        /\ ~is_nil(h[x].right) => h[h[x].right].parent = x
        /\ h[x].left # h[x].right \/ is_nil(h[x].left)

\* C22: a rotation about a node that has the required child keeps the
\* in-order key sequence of the whole tree and leaves all parent/child links
\* mutually consistent: the promoted child takes the node's slot in its
\* parent (the header's right slot when the node was the root), the node
\* becomes the promoted child's child on the other side, and the inner
\* subtree of the promoted child moves under the node and is re-parented.
\* A rotation about a node whose required child is nil faults and changes no
\* link.
C22_Rotate ==
    [][op'.kind \in {"rotate_left", "rotate_right"} =>
        LET is_left == op'.kind = "rotate_left"
            node   == op'.key
            parent == heap[node].parent
            up     == IF is_left THEN heap[node].right ELSE heap[node].left
            inner  == IF is_left THEN heap[up].left ELSE heap[up].right
        IN  IF is_nil(up)
            THEN panic' /\ heap' = heap
            ELSE /\ ~panic'
                 /\ links_consistent(heap)
                 /\ inorder_keys(heap') = inorder_keys(heap)
                 /\ Len(inorder_keys(heap')) = Cardinality(data_nodes(tree))
                 /\ DOMAIN heap' = DOMAIN heap
                 /\ links_consistent(heap')
                 /\ heap'[nil] = heap[nil]
                 /\ heap'[up].parent = parent
                 /\ IF is_header(parent) THEN heap'[header].right = up
                    ELSE IF heap[parent].left = node
                    THEN heap'[parent].left = up /\ heap'[parent].right = heap[parent].right
                    ELSE heap'[parent].right = up /\ heap'[parent].left = heap[parent].left
                 /\ heap'[node].parent = up
                 /\ IF is_left
                    THEN heap'[up].left = node /\ heap'[node].right = inner
                    ELSE heap'[up].right = node /\ heap'[node].left = inner
                 /\ ~is_nil(inner) => heap'[inner].parent = node
                 /\ \A x \in DOMAIN heap :
                        /\ heap'[x].key = heap[x].key
                        /\ heap'[x].color = heap[x].color]_vars

\* a left rotation about a left child has promoted its right child and
\* moved that child's left subtree under the rotated node
C22_Witness ==
    /\ op.kind = "rotate_left"
    /\ ~panic
    /\ ~is_nil(heap[op.key].right)
    /\ LET up == heap[op.key].parent
       IN  /\ heap[up].left = op.key
           /\ ~is_header(heap[up].parent)
           /\ heap[heap[up].parent].left = up


\* C23: for every data node n of a tree in search order, inorder_successor(n)
\* is the node with the smallest key greater than n's key and
\* inorder_predecessor(n) the node with the largest key smaller than n's key;
\* each is nil when there is no such node.
C23_Neighbours ==
    op.kind \in {"inorder_successor", "inorder_predecessor"} =>
        LET n    == op.key
            up   == op.kind = "inorder_successor"
            side == {x \in data_nodes(tree) :
                        IF up THEN heap[x].key > heap[n].key
                        ELSE heap[x].key < heap[n].key}
        IN  /\ ~panic
            /\ IF side = {} THEN is_nil(ret)
               ELSE /\ ret \in side
                    /\ \A x \in side :
                           IF up THEN heap[ret].key <= heap[x].key
                           ELSE heap[ret].key >= heap[x].key

\* the successor of a node without a right child, found two or more levels
\* up by the walk over the parent links
C23_Witness ==
    /\ op.kind = "inorder_successor"
    /\ is_nil(heap[op.key].right)
    /\ ~is_nil(ret)
    /\ ret # heap[op.key].parent
    /\ heap[ret].key > heap[op.key].key


\* what the plain variant shows of itself in a state: its in-order
\* traversal, len() and is_empty() against the reference map, and the colors
plain_agrees(h, n, m) ==
    LET t == [heap |-> h, len |-> n, panic |-> FALSE]
    IN  /\ simple_traverse_kv(t) = std_iter(m)
        /\ n = Cardinality(DOMAIN m)
        /\ simple_is_empty(t) <=> DOMAIN m = {}
        /\ Len(simple_traverse_kv(t)) = Cardinality((DOMAIN h) \ {nil, header})
        /\ \A x \in DOMAIN h : h[x].color = Black

\* C24: after every insert/remove on the plain variant and on the reference
\* map, the in-order traversal of the plain variant is the reference map's
\* sorted (key, value) sequence and len()/is_empty() agree with its size;
\* remove of a present key returns the (key, value) pair of that key; every
\* node of the plain variant is Black.
C24_PlainDifferential ==
    [][/\ ~panic'
       /\ plain_agrees(heap, len, std_tree)
       /\ plain_agrees(heap', len', std_tree')
       /\ \A k \in (DOMAIN std_tree) \ (DOMAIN std_tree') :
              \A r \in {simple_remove(tree, k)} :
                  /\ r.ret = Some(<<k, std_tree[k]>>)
                  /\ heap' = canonical(r.t).heap
                  /\ len' = r.t.len]_vars

\* a degenerate four-node tree (every node without a left child) that
\* holds two different values: insertions in ascending order, never
\* rebalanced
C24_Witness ==
    /\ len = 4
    /\ \A x \in data_nodes(tree) : is_nil(heap[x].left) /\ heap[x].color = Black
    /\ \E x, y \in data_nodes(tree) : heap[x].value # heap[y].value


\* nil is Black and all its links point to itself; the header is Black and
\* its left and parent links are nil
sentinels_intact(h) ==
    /\ h[nil] = RBNode(Uninit, Uninit, Black, nil, nil, nil)
    /\ h[header].color = Black
    /\ h[header].left = nil
    /\ h[header].parent = nil
    /\ h[header].key = Uninit /\ h[header].value = Uninit

\* C25: the sentinels are intact after every insert and remove, and at every
\* entry into the removal fixup (also when nil is the double-black node):
\* nil is Black with its three links pointing to nil, the header is Black
\* with its left and parent links nil; of the sentinels' fields only the
\* header's right link (the root) changes.
C25_Sentinels ==
    [][/\ sentinels_intact(heap)
       /\ sentinels_intact(heap')
       /\ \A k \in (DOMAIN std_tree) \ (DOMAIN std_tree') :
              \A r \in {remove(traced(tree), k)} :
                  /\ heap' = canonical(r.t).heap
                  /\ sentinels_intact(r.t.heap)
                  /\ \A i \in DOMAIN r.t.calls : sentinels_intact(r.t.calls[i].heap)]_vars

\* a tree in which the removal of some key makes nil the double-black node
\* of a Black-sibling step that pushes the deficit up to the parent
C25_Witness ==
    \E k \in DOMAIN std_tree :
        \E r \in {remove(traced(tree), k)} :
            \E i \in DOMAIN r.t.calls :
                /\ r.t.calls[i].fn = "remove_fixup_black_sibling"
                /\ is_nil(r.t.calls[i].double_black)
                /\ i < Len(r.t.calls)
                /\ sentinels_intact(r.t.heap)


\* the positions, in a log of calls, of the entries where a rotation is due:
\* a remove_fixup entry that goes on with a Red sibling, and a
\* remove_fixup_black_sibling entry with a Red far nephew, or with a Black far
\* and a Red near nephew
red_sibling_entries(calls) ==
    {i \in DOMAIN calls :
        LET c == calls[i]
        IN  /\ c.fn = "remove_fixup"
            /\ ~is_header(c.parent)
            /\ c.heap[c.double_black].color = Black
            /\ c.heap[sibling_at(c)].color = Red}

far_nephew_at(c) ==
    IF c.heap[c.parent].left = c.double_black THEN c.heap[sibling_at(c)].right
    ELSE c.heap[sibling_at(c)].left

near_nephew_at(c) ==
    IF c.heap[c.parent].left = c.double_black THEN c.heap[sibling_at(c)].left
    ELSE c.heap[sibling_at(c)].right

far_red_entries(calls) ==
    {i \in DOMAIN calls :
        /\ calls[i].fn = "remove_fixup_black_sibling"
        /\ calls[i].heap[far_nephew_at(calls[i])].color = Red}

near_red_entries(calls) ==
    {i \in DOMAIN calls :
        /\ calls[i].fn = "remove_fixup_black_sibling"
        /\ calls[i].heap[far_nephew_at(calls[i])].color = Black
        /\ calls[i].heap[near_nephew_at(calls[i])].color = Red}

\* C26: an insert performs at most 2 rotations: none when its fixup only
\* recolors (Red uncles all the way, or no conflict), 1 in the straight-line
\* and 2 in the broken-line Black-uncle case.  A remove performs at most 3:
\* at most one for a Red sibling, and then one for a Red far nephew or two
\* for a Red near nephew (the second being the far-nephew rotation).
C26_Rotations ==
    [][/\ \A k \in (DOMAIN std_tree') \ (DOMAIN std_tree) :
              \A r \in {insert(traced(tree), k, unit_value)} :
              \A b \in {bs_insert(tree, k, unit_value)} :
              \A c \in {black_uncle_case(b.t, b.result.node)} :
                  LET n == c.red_node
                      p == c.t.heap[n].parent
                      g == c.t.heap[p].parent
                      straight == (c.t.heap[g].left = p) <=> (c.t.heap[p].left = n)
                  IN  /\ heap' = canonical(r.t).heap
                      /\ r.t.rotations <= 2
                      /\ r.t.rotations = IF ~c.found THEN 0 ELSE IF straight THEN 1 ELSE 2
       /\ \A k \in (DOMAIN std_tree) \ (DOMAIN std_tree') :
              \A r \in {remove(traced(tree), k)} :
              \A red_sibling \in {Cardinality(red_sibling_entries(r.t.calls))} :
              \A far_red \in {Cardinality(far_red_entries(r.t.calls))} :
              \A near_red \in {Cardinality(near_red_entries(r.t.calls))} :
                  /\ heap' = canonical(r.t).heap
                  /\ r.t.rotations <= 3
                  /\ red_sibling <= 1
                  /\ far_red + near_red <= 1
                  /\ r.t.rotations = red_sibling + far_red + 2 * near_red]_vars

\* a tree in which the removal of some key takes three rotations and the
\* insertion of some key two
C26_Witness ==
    /\ \E k \in DOMAIN std_tree : remove(traced(tree), k).t.rotations = 3
    /\ \E k \in Keys \ DOMAIN std_tree :
           insert(traced(tree), k, unit_value).t.rotations = 2

\* the number of nodes on the shortest path from n down to a nil link
RECURSIVE shortest_path(_, _)
shortest_path(t, n) ==
    IF is_nil(n) THEN 0
    ELSE LET l == shortest_path(t, t.heap[n].left)
             r == shortest_path(t, t.heap[n].right)
         IN  1 + (IF l <= r THEN l ELSE r)

\* C27: after every insert/remove the height h of the tree (nodes on the
\* longest path from the root to a leaf) is at most 2 * log2(len + 1), that
\* is 2^h <= (len + 1)^2, and the longest root-to-nil path is at most twice
\* as long as the shortest.
C27_Height ==
    \A h \in {height(tree, root)} :
        /\ 2 ^ h <= (len + 1) * (len + 1)
        /\ h <= 2 * shortest_path(tree, root)

\* a tree whose longest path (4 nodes) is exactly twice its shortest
C27_Witness ==
    /\ height(tree, root) = 4
    /\ shortest_path(tree, root) = 2

\* how often instance s occurs in a bag
copies(s, B) == IF s \in DOMAIN B THEN B[s] ELSE 0

\* the key / value instance s is at rest in a node of the live tree
key_stored(s) ==
    /\ life.state = "alive"
    /\ \E k \in DOMAIN life.key_at : life.key_at[k] = s /\ holds(tree, k)

value_stored(s) ==
    /\ life.state = "alive"
    /\ \E n \in data_nodes(tree) : heap[n].value = s

\* C28: every key and every value handed to insert is released exactly once
\* over the tree's life, never twice and never leaked: at any moment each
\* instance is either still stored in the tree or was released exactly once
\* (a value: returned to the caller by an upsert or a remove, or dropped; a
\* key: dropped), and once the tree is dropped nothing is stored and every
\* node and both sentinels are freed.
C28_ReleasedOnce ==
    /\ \A s \in 1..life.handed :
           /\ copies(s, life.key_drops) + (IF key_stored(s) THEN 1 ELSE 0) = 1
           /\ copies(s, life.value_drops) + copies(s, life.returned)
                  + (IF value_stored(s) THEN 1 ELSE 0) = 1
    /\ life.state = "dropped" => DOMAIN heap = {}


\* the child of p that is not c, and whether p links to c
other_child(h, p, c) == IF h[p].left = c THEN h[p].right ELSE h[p].left

links_to(h, p, c) == h[p].left = c \/ h[p].right = c

\* C29: sibling(node), grandparent(node) and uncle(node) return nil whenever
\* the relation does not exist (sibling of the root; grandparent of the root
\* and of a child of the root; uncle of the root and of a child of the root;
\* an empty sibling or uncle slot), and the actual sibling, grandparent or
\* uncle otherwise.
C29_Relations ==
    op.kind \in {"sibling", "grandparent", "uncle"} =>
        LET node == op.key
            p    == heap[node].parent
            g    == heap[p].parent
        IN  ret = CASE op.kind = "sibling" ->
                          IF is_header(p) THEN nil ELSE other_child(heap, p, node)
                    [] op.kind = "grandparent" ->
                          IF is_header(p) \/ is_header(g) THEN nil ELSE g
                    [] op.kind = "uncle" ->
                          IF is_header(p) \/ is_header(g) THEN nil
                          ELSE other_child(heap, g, p)

\* C30 as stated: get_parent_node_position(parent, child) returns Right
\* whenever parent is the header, Left when parent's left link is child,
\* Right when its right link is child, and faults for every pair in which
\* parent does not link to child.
C30_FaultsWheneverUnlinked ==
    op.kind = "get_parent_node_position" =>
        LET parent == op.key
            child  == op.value
        IN  /\ links_to(heap, parent, child) =>
                   ret = IF is_header(parent) THEN Right
                         ELSE IF heap[parent].left = child THEN Left ELSE Right
            /\ ~links_to(heap, parent, child) => ret = PanicPos /\ panic

\* C30: get_parent_node_position(parent, child) returns Right whenever
\* parent is the header, whether or not the header links to child; for any
\* other parent it returns Left when parent's left link is child, Right when
\* its right link is child, and faults, returning no position, when parent
\* does not link to child.
C30_Position ==
    op.kind = "get_parent_node_position" =>
        LET parent == op.key
            child  == op.value
        IN  /\ is_header(parent) => ret = Right /\ ~panic
            /\ (~is_header(parent) /\ links_to(heap, parent, child)) =>
                   /\ ret = IF heap[parent].left = child THEN Left ELSE Right
                   /\ ~panic
            /\ (~is_header(parent) /\ ~links_to(heap, parent, child)) =>
                   ret = PanicPos /\ panic

\* the lookup faulted on a data node with two children and a third data
\* node that is not one of them
C30_Witness ==
    /\ op.kind = "get_parent_node_position"
    /\ op.key \in data_nodes(tree)
    /\ op.value \in data_nodes(tree)
    /\ ~is_nil(heap[op.key].left)
    /\ ~is_nil(heap[op.key].right)
    /\ ~links_to(heap, op.key, op.value)
    /\ ret = PanicPos
    /\ panic


====
